---------------------------- MODULE Spec2Model ----------------------------
(***************************************************************************)
(* A state-machine model of the Leo ROI Zoom Tool core                     *)
(* (src/roi_zoom_tool_v2.py): the multi-scale ROI locator                  *)
(* find_roi_position, the dashed-line marcher draw_dashed_line and the     *)
(* orchestrator create_zoom_figure with its layout, borders, guide lines,  *)
(* scale bars, annotations and watermark; and of the classes of the GUI    *)
(* (src/roi_zoom_gui.py) that keep state of their own: HistoryManager,     *)
(* PreviewDebouncer, the undo, redo and annotation handlers of ROIZoomGUI  *)
(* and the worker thread of BatchProcessDialog.                            *)
(*                                                                         *)
(* Numbers.  Pixel quantities are integers, as in the code.  A confidence  *)
(* (a float in [-1, 1]) is held in hundredths (ConfScale); pixels_per_um   *)
(* is held in quarters (PpuScale), which are exact binary floats, so the   *)
(* float product length_um * pixels_per_um is the exact rational product.  *)
(* int(dim * scale) is computed exactly and then corrected where the       *)
(* IEEE-754 double product falls just below the exact integer              *)
(* (FloatShort).                                                           *)
(***************************************************************************)
EXTENDS Integers, Sequences, FiniteSets, TLC

VARIABLES
    \* the two source files, as the decoders see them: <<>> (unreadable) or
    \* <<[w |-> .., h |-> ..]>>
    panorama_file, zoom_file,
    \* control: the program point, the return labels of the pending calls
    pc, stack,
    \* find_roi_position: the loop index into scales, best_match (<<>> is
    \* None), best_confidence, the returned tuple (<<>> before the return)
    si, best_match, best_confidence, roi,
    \* every matchTemplate call made so far: [scale, w, h, x, y, val]
    obs,
    \* the exception raised ("" when none)
    error,
    \* draw_dashed_line: its arguments [x1, y1, x2, y2, dash_length,
    \* gap_length] (<<>> outside a call), current_pos, drawing
    dl, current_pos, drawing,
    \* the drawing operations applied to the canvas, in order
    drawn,
    \* create_zoom_figure: its arguments (each is drawn when the code first
    \* reads it; until then the field holds the default of the signature)
    args,
    \* the located box after the manual offset, the confidence, and whether
    \* the low-confidence warning was printed
    roi_x, roi_y, roi_w, roi_h, confidence, warned,
    \* the sizes of the two PIL images (<<>> before they are opened)
    panorama, zoom_img,
    \* the layout
    margin, canvas_w, canvas_h, pano_pos, zoom_pos,
    \* the canvas (<<>> before Image.new), the file written to output_path
    \* (<<>> before canvas.save) and the returned (canvas, metadata)
    canvas, saved, result,
    \* HistoryManager: history, current_index, max_history, the value
    \* returned by the last undo() or redo() (<<>> is None) and, for the
    \* properties, the operation run last with the state it started from
    history, current_index, max_history, returned, hlog,
    \* ROIZoomGUI: the settings that save_state records, the settings as
    \* they stood before the modification made last (<<>> when the last
    \* handler was no modification), the handler run last and the number
    \* of undoable steps shown in the status bar
    settings, unmodified, event, status,
    \* whether the next click on the preview adds an annotation, and the
    \* scale of the preview shown, in percent
    adding_annotation, preview_scale,
    \* BatchProcessDialog: file_pairs, the rows of the tree (the names of
    \* the pairs), processing, the states of the two buttons
    file_pairs, tree, processing, start_btn, cancel_btn,
    \* process_files, run by the worker thread: its program point, the list
    \* object its loop iterates with the next index into it, whether that
    \* object is still self.file_pairs, the pair in hand, success, failed
    worker, iterated, wi, aliased, pair, success, failed,
    \* the list as it stood when the worker began its loop and the pairs
    \* the worker has started on since
    batch_list, started,
    \* PreviewDebouncer: _job (<<>> is None, else <<id>>); Tk's pending
    \* timers [id, set_at, due]; the number of ids root.after has handed
    \* out; the clock in milliseconds; every callback run by _execute
    \* [id, set_at, at, count]; the operation run last ("" when none)
    job, timers, after_count, now, ran, dlog

locVars == <<si, best_match, best_confidence, roi, obs>>
fileVars == <<panorama_file, zoom_file>>
dashVars == <<dl, current_pos, drawing>>
boxVars == <<roi_x, roi_y, roi_w, roi_h, confidence, warned>>
imgVars == <<panorama, zoom_img>>
layoutVars == <<margin, canvas_w, canvas_h, pano_pos, zoom_pos>>
outVars == <<canvas, saved, result>>
figVars == <<args, roi_x, roi_y, roi_w, roi_h, confidence, warned, panorama,
             zoom_img, margin, canvas_w, canvas_h, pano_pos, zoom_pos,
             canvas, saved, result>>
histVars == <<history, current_index, max_history, returned, hlog>>
guiVars == <<settings, unmodified, event, status, adding_annotation,
            preview_scale>>
debVars == <<job, timers, after_count, now, ran, dlog>>
batchVars == <<file_pairs, tree, processing, start_btn, cancel_btn, worker,
              iterated, wi, aliased, pair, success, failed, batch_list,
              started>>
appVars == <<histVars, guiVars, debVars, batchVars>>
\* what no handler of the GUI changes, and what a preview renders
stillVars == <<fileVars, pc, stack, locVars, error, dashVars, args, boxVars,
              imgVars, layoutVars, canvas, saved, batchVars>>
renderVars == <<drawn, result>>
\* the state of roi_zoom_tool_v2, and all but the history, the settings and
\* the debouncer
toolVars == <<panorama_file, zoom_file, pc, stack, si, best_match,
              best_confidence, roi, obs, error, dl, current_pos, drawing,
              drawn, args, roi_x, roi_y, roi_w, roi_h, confidence, warned,
              panorama, zoom_img, margin, canvas_w, canvas_h, pano_pos,
              zoom_pos, canvas, saved, result>>
coreVars == <<toolVars, batchVars>>
vars == <<panorama_file, zoom_file, pc, stack, si, best_match,
          best_confidence, roi, obs, error, dl, current_pos, drawing, drawn,
          args, roi_x, roi_y, roi_w, roi_h, confidence, warned, panorama,
          zoom_img, margin, canvas_w, canvas_h, pano_pos, zoom_pos,
          canvas, saved, result, appVars>>

---------------------------------------------------------------------------
(* Bounds of the model *)

\* the largest panorama dimension and the largest zoom dimension drawn
MaxPanoDim == 21
MaxZoomDim == 40
\* the longest dash and gap drawn, and the extent of the longest line
MaxDash == 20
MaxGap == 12
MaxLineDim == 45
\* the largest padding, border thickness and manual ROI offset drawn
MaxPadding == 3
MaxThickness == 2
MaxOffset == 2
MaxLayoutDim == 30
\* the longest scale bar, in um, and the finest resolution, in quarters of
\* a pixel per um
MaxLengthUm == 2040
MaxPpu == 8
\* the size of the text box measured for a non-empty text
MaxTextW == 9
MaxTextH == 5
\* a watermark text wider than the smallest canvas
MaxWatermarkW == 31
\* the largest max_history of a HistoryManager run on its own
MaxHistory == 3
\* the number of timers root.after hands out, the last instant of the
\* clock and the step of the clock, in milliseconds
MaxAfter == 3
\* the dashes followed of a march that does not end
MaxSegments == 4
\* the longest list of the batch dialog
MaxPairs == 3
MaxTime == 1500
ClockStep == 500

(* Program constants *)

\* confidences are hundredths: 1.0 is ConfScale
ConfScale == 100
\* a resized template under 10 px is skipped
MinTemplate == 10
\* scale percentages are hundredths of the zoom size
PctScale == 100
\* HistoryManager(max_history=20), PreviewDebouncer(delay=500)
DefaultMaxHistory == 20
DebounceDelay == 500
\* the default dash and gap of a dashed guide line
DefaultDash == 15
DefaultGap == 10
\* the default padding and border thickness of create_zoom_figure
DefaultPadding == 50
DefaultThickness == 3
\* the clearance added to the thicker border to make the margin
MarginExtra == 5
\* the low-confidence warning is printed under 0.5, in hundredths
WarnBelow == 50
\* pixels_per_um is held in quarters: 1.0 is PpuScale
PpuScale == 4
\* the scale-bar label is in millimetres from 1000 um on
MmFrom == 1000
\* the watermark keeps 20 px from the canvas edge
WatermarkMargin == 20

\* scales = [1.0, 0.9, 0.8, 0.7, 0.6, 0.5, 0.4, 0.3, 0.25, 0.2, 0.15, 0.1]
scales == <<100, 90, 80, 70, 60, 50, 40, 30, 25, 20, 15, 10>>

\* The <<dim, percent>> pairs, for dim up to 200, where the double product
\* dim * scale is just below the exact integer, so that int() yields one
\* less: 90 * 0.7 = 62.99999999999999, 170 * 0.7 = 118.99999999999999,
\* 180 * 0.7 = 125.99999999999999.
FloatShort == {<<90, 70>>, <<170, 70>>, <<180, 70>>}

\* lines 70-71: int(dim * scale)
ScaledDim(dim, pct) ==
    ((dim * pct) \div PctScale) - (IF <<dim, pct>> \in FloatShort THEN 1 ELSE 0)

SkipsLoose(new_w, new_h, pano_w, pano_h) ==
    \/ new_w > pano_w \/ new_h > pano_h
    \/ new_w < MinTemplate \/ new_h < MinTemplate

SkipsNoMin(new_w, new_h, pano_w, pano_h) ==
    new_w >= pano_w \/ new_h >= pano_h

\* lines 73-76: TRUE when the scale is skipped
Skips(new_w, new_h, pano_w, pano_h) ==
    \/ new_w >= pano_w \/ new_h >= pano_h
    \/ new_w < MinTemplate \/ new_h < MinTemplate

\* line 82: max_val > best_confidence
Better(max_val, best) == max_val > best

BestMatchSwapped(max_loc, new_w, new_h, scale) ==
    <<[x |-> max_loc[1], y |-> max_loc[2], w |-> new_h, h |-> new_w,
       scale |-> scale]>>

\* line 84: best_match = (max_loc[0], max_loc[1], new_w, new_h, scale)
BestMatch(max_loc, new_w, new_h, scale) ==
    <<[x |-> max_loc[1], y |-> max_loc[2], w |-> new_w, h |-> new_h,
       scale |-> scale]>>

---------------------------------------------------------------------------
(* Inputs *)

Unreadable == <<>>
Image(w, h) == <<[w |-> w, h |-> h]>>

PanoDims == {MinTemplate, MinTemplate + 1, MaxPanoDim}
ZoomDims == {MinTemplate - 1, MinTemplate, MinTemplate + 2, MaxZoomDim}

PanoFiles == {Unreadable} \cup {Image(w, h) : w \in PanoDims, h \in PanoDims}
ZoomFiles == {Unreadable} \cup {Image(w, h) : w \in ZoomDims, h \in ZoomDims}

\* the peak values cv2.minMaxLoc can report, in hundredths: -1.0, 0.2, the
\* warning threshold 0.5 itself, and 0.9
ConfVals == {-ConfScale, 20, 50, 90}

\* the peak locations drawn: the two extreme corners of the result map,
\* whose size is (pano_w - new_w + 1) x (pano_h - new_h + 1)
PeakLocs(new_w, new_h, pano_w, pano_h) ==
    {<<0, 0>>, <<pano_w - new_w, pano_h - new_h>>}

---------------------------------------------------------------------------
(* find_roi_position *)

LocIdle ==
    /\ si = 0
    /\ best_match = <<>>
    /\ best_confidence = -ConfScale
    /\ roi = <<>>
    /\ obs = <<>>

find_roi_position_read_pano_only ==
    /\ pc = "find_roi_position"
    /\ IF panorama_file = Unreadable
       THEN /\ error' = "read_panorama"
            /\ pc' = "raised"
            /\ stack' = <<>>
            /\ UNCHANGED <<si, best_match, best_confidence>>
       ELSE /\ best_match' = <<>>
            /\ best_confidence' = -ConfScale
            /\ si' = 1
            /\ pc' = "scan"
            /\ UNCHANGED <<error, stack>>
    /\ UNCHANGED <<appVars, fileVars, roi, obs>>
    /\ UNCHANGED <<dashVars, drawn, figVars>>

\* lines 53-67: decode both files, fail on an unreadable one, set up the scan
find_roi_position_read ==
    /\ pc = "find_roi_position"
    /\ IF panorama_file = Unreadable
       THEN /\ error' = "read_panorama"
            /\ pc' = "raised"
            /\ stack' = <<>>
            /\ UNCHANGED <<si, best_match, best_confidence>>
       ELSE IF zoom_file = Unreadable
       THEN /\ error' = "read_zoom"
            /\ pc' = "raised"
            /\ stack' = <<>>
            /\ UNCHANGED <<si, best_match, best_confidence>>
       ELSE /\ best_match' = <<>>
            /\ best_confidence' = -ConfScale
            /\ si' = 1
            /\ pc' = "scan"
            /\ UNCHANGED <<error, stack>>
    /\ UNCHANGED <<appVars, fileVars, roi, obs>>
    /\ UNCHANGED <<dashVars, drawn, figVars>>

\* lines 69-76: one iteration of the loop that skips the scale
find_roi_position_skip ==
    /\ pc = "scan"
    /\ si <= Len(scales)
    /\ LET pano == panorama_file[1]
           zoom == zoom_file[1]
           new_w == ScaledDim(zoom.w, scales[si])
           new_h == ScaledDim(zoom.h, scales[si])
       IN  Skips(new_w, new_h, pano.w, pano.h)
    /\ si' = si + 1
    /\ UNCHANGED <<appVars, fileVars, pc, stack, best_match, best_confidence, roi,
                   obs, error>>
    /\ UNCHANGED <<dashVars, drawn, figVars>>

\* lines 69-84: one iteration of the loop that matches the resized template
find_roi_position_match ==
    /\ pc = "scan"
    /\ si <= Len(scales)
    /\ LET pano == panorama_file[1]
           zoom == zoom_file[1]
           new_w == ScaledDim(zoom.w, scales[si])
           new_h == ScaledDim(zoom.h, scales[si])
       IN  /\ ~Skips(new_w, new_h, pano.w, pano.h)
           /\ \E max_val \in ConfVals :
              \E max_loc \in PeakLocs(new_w, new_h, pano.w, pano.h) :
                /\ obs' = Append(obs, [scale |-> scales[si], w |-> new_w,
                                       h |-> new_h, x |-> max_loc[1],
                                       y |-> max_loc[2], val |-> max_val])
                /\ IF Better(max_val, best_confidence)
                   THEN /\ best_confidence' = max_val
                        /\ best_match' = BestMatch(max_loc, new_w, new_h,
                                                   scales[si])
                   ELSE UNCHANGED <<best_match, best_confidence>>
    /\ si' = si + 1
    /\ UNCHANGED <<appVars, fileVars, pc, stack, roi, error>>
    /\ UNCHANGED <<dashVars, drawn, figVars>>

\* lines 86-87: no best match after the loop
find_roi_position_raise ==
    /\ pc = "scan"
    /\ si > Len(scales)
    /\ best_match = <<>>
    /\ error' = "no_match"
    /\ pc' = "raised"
    /\ stack' = <<>>
    /\ UNCHANGED <<appVars, fileVars, locVars>>
    /\ UNCHANGED <<dashVars, drawn, figVars>>

\* lines 89-90: return x, y, w, h, best_confidence to the caller
find_roi_position_return ==
    /\ pc = "scan"
    /\ si > Len(scales)
    /\ best_match # <<>>
    /\ roi' = <<[x |-> best_match[1].x, y |-> best_match[1].y,
                 w |-> best_match[1].w, h |-> best_match[1].h,
                 confidence |-> best_confidence]>>
    /\ IF stack = <<>>
       THEN pc' = "returned" /\ UNCHANGED stack
       ELSE pc' = Head(stack) /\ stack' = Tail(stack)
    /\ UNCHANGED <<appVars, fileVars, si, best_match, best_confidence, obs, error>>
    /\ UNCHANGED <<dashVars, drawn, figVars>>


---------------------------------------------------------------------------
(* draw_dashed_line *)

\* The line length (dx**2 + dy**2) ** 0.5 is irrational in general; the
\* model keeps its square and compares squares.  Every distance the loop
\* compares with it is an integer, and for lines of under 2^26 px the
\* correctly rounded square root lies on the same side of every integer as
\* the real one, so each comparison below is the one the floats make.
LengthSq(a) == (a.x2 - a.x1) * (a.x2 - a.x1) + (a.y2 - a.y1) * (a.y2 - a.y1)

\* line 109: current_pos < length
BeforeEnd(pos, a) == pos < 0 \/ pos * pos < LengthSq(a)

\* line 111: dash_length <= length - current_pos, the dash is drawn whole
Whole(pos, a) ==
    IF pos + a.dash_length < 0 THEN TRUE
    ELSE (pos + a.dash_length) * (pos + a.dash_length) <= LengthSq(a)

SegmentUnclipped(pos, a) ==
    [op |-> "line", from |-> pos, to |-> pos + a.dash_length,
     clipped |-> FALSE, x1 |-> a.x1, y1 |-> a.y1, x2 |-> a.x2, y2 |-> a.y2]

\* lines 111-114: the segment drawn at current_pos, from the point at
\* distance `from` of the start to the point at distance `to`, or to the
\* end point itself when the dash is clipped (seg_length = length -
\* current_pos)
Segment(pos, a) ==
    IF Whole(pos, a)
    THEN [op |-> "line", from |-> pos, to |-> pos + a.dash_length,
          clipped |-> FALSE, x1 |-> a.x1, y1 |-> a.y1, x2 |-> a.x2,
          y2 |-> a.y2]
    ELSE [op |-> "line", from |-> pos, to |-> 0,
          clipped |-> TRUE, x1 |-> a.x1, y1 |-> a.y1, x2 |-> a.x2,
          y2 |-> a.y2]

AfterGapNone(pos, a) == pos

\* line 117: current_pos += gap_length
AfterGap(pos, a) == pos + a.gap_length

\* line 115: current_pos += dash_length
AfterDash(pos, a) == pos + a.dash_length

\* lines 93-96: the arguments start, end, dash_length, gap_length
DashArgs(line, dash, gap) ==
    <<[x1 |-> line[1], y1 |-> line[2], x2 |-> line[3], y2 |-> line[4],
       dash_length |-> dash, gap_length |-> gap]>>

DashIdle ==
    /\ dl = <<>>
    /\ current_pos = 0
    /\ drawing = TRUE

\* lines 95-107: a zero-length line returns at once; otherwise set up the
\* march
draw_dashed_line_enter ==
    /\ pc = "draw_dashed_line"
    /\ current_pos' = 0
    /\ drawing' = TRUE
    /\ IF LengthSq(dl[1]) = 0
       THEN IF stack = <<>>
            THEN pc' = "returned" /\ UNCHANGED stack
            ELSE pc' = Head(stack) /\ stack' = Tail(stack)
       ELSE pc' = "march" /\ UNCHANGED stack
    /\ UNCHANGED <<appVars, fileVars, locVars, error, dl, drawn>>
    /\ UNCHANGED figVars

\* lines 109-115, 118: an iteration that draws a dash
draw_dashed_line_dash ==
    /\ pc = "march"
    /\ BeforeEnd(current_pos, dl[1])
    /\ drawing
    /\ drawn' = Append(drawn, Segment(current_pos, dl[1]))
    /\ current_pos' = AfterDash(current_pos, dl[1])
    /\ drawing' = ~drawing
    /\ UNCHANGED <<appVars, fileVars, locVars, error, dl, pc, stack>>
    /\ UNCHANGED figVars

\* lines 109, 116-118: an iteration that skips a gap
draw_dashed_line_gap ==
    /\ pc = "march"
    /\ BeforeEnd(current_pos, dl[1])
    /\ ~drawing
    /\ current_pos' = AfterGap(current_pos, dl[1])
    /\ drawing' = ~drawing
    /\ UNCHANGED <<appVars, fileVars, locVars, error, dl, pc, stack, drawn>>
    /\ UNCHANGED figVars

\* line 109: the loop condition fails, the function returns
draw_dashed_line_return ==
    /\ pc = "march"
    /\ ~BeforeEnd(current_pos, dl[1])
    /\ IF stack = <<>>
       THEN pc' = "returned" /\ UNCHANGED stack
       ELSE pc' = Head(stack) /\ stack' = Tail(stack)
    /\ UNCHANGED <<appVars, fileVars, locVars, error, dashVars, drawn>>
    /\ UNCHANGED figVars

---------------------------------------------------------------------------
(* create_zoom_figure: layout, canvas, borders, guide lines *)

\* lines 347-362: the defaults of the signature
DefaultArgs ==
    [zoom_position |-> "right", zoom_scale |-> PctScale,
     padding |-> DefaultPadding, box_thickness |-> DefaultThickness,
     zoom_box_thickness |-> DefaultThickness, line_style |-> "solid",
     dash_length |-> DefaultDash, gap_length |-> DefaultGap,
     roi_offset |-> <<0, 0>>, scale_bar |-> <<>>, annotations |-> <<>>,
     watermark |-> <<>>]

FigIdle ==
    /\ args = DefaultArgs
    /\ roi_x = 0 /\ roi_y = 0 /\ roi_w = 0 /\ roi_h = 0
    /\ confidence = 0 /\ warned = FALSE
    /\ panorama = <<>> /\ zoom_img = <<>>
    /\ margin = 0 /\ canvas_w = 0 /\ canvas_h = 0
    /\ pano_pos = <<0, 0>> /\ zoom_pos = <<0, 0>>
    /\ canvas = <<>> /\ saved = <<>> /\ result = <<>>

MaxAsMin(a, b) == IF a <= b THEN a ELSE b

Max(a, b) == IF a >= b THEN a ELSE b

\* line 374: confidence < 0.5
LowConfidence(c) == c < WarnBelow

\* line 383: int(zoom_img.width * zoom_scale); the zoom scales drawn are
\* multiples of 0.25, whose double products are exact
Resized(dim, pct) == (dim * pct) \div PctScale

\* line 390: margin = max(box_thickness, zoom_box_thickness) + 5
MarginOf(box_thickness, zoom_box_thickness) ==
    Max(box_thickness, zoom_box_thickness) + MarginExtra

LayoutUncentred(direction, pw, ph, zw, zh, pad, mg) ==
    IF direction = "right"
    THEN [canvas_w |-> mg + pw + pad + zw + mg,
          canvas_h |-> mg + Max(ph, zh) + mg,
          pano_pos |-> <<mg, mg>>,
          zoom_pos |-> <<mg + pw + pad, mg>>]
    ELSE IF direction = "left"
    THEN [canvas_w |-> mg + zw + pad + pw + mg,
          canvas_h |-> mg + Max(ph, zh) + mg,
          pano_pos |-> <<mg + zw + pad, mg>>,
          zoom_pos |-> <<mg, mg>>]
    ELSE IF direction = "bottom"
    THEN [canvas_w |-> mg + Max(pw, zw) + mg,
          canvas_h |-> mg + ph + pad + zh + mg,
          pano_pos |-> <<mg, mg>>,
          zoom_pos |-> <<mg, mg + ph + pad>>]
    ELSE [canvas_w |-> mg + Max(pw, zw) + mg,
          canvas_h |-> mg + zh + pad + ph + mg,
          pano_pos |-> <<mg, mg + zh + pad>>,
          zoom_pos |-> <<mg, mg>>]

\* lines 392-412: the canvas size and the two anchors, by direction
Layout(direction, pw, ph, zw, zh, pad, mg) ==
    IF direction = "right"
    THEN [canvas_w |-> mg + pw + pad + zw + mg,
          canvas_h |-> mg + Max(ph, zh) + mg,
          pano_pos |-> <<mg, mg + (Max(ph, zh) - ph) \div 2>>,
          zoom_pos |-> <<mg + pw + pad, mg + (Max(ph, zh) - zh) \div 2>>]
    ELSE IF direction = "left"
    THEN [canvas_w |-> mg + zw + pad + pw + mg,
          canvas_h |-> mg + Max(ph, zh) + mg,
          pano_pos |-> <<mg + zw + pad, mg + (Max(ph, zh) - ph) \div 2>>,
          zoom_pos |-> <<mg, mg + (Max(ph, zh) - zh) \div 2>>]
    ELSE IF direction = "bottom"
    THEN [canvas_w |-> mg + Max(pw, zw) + mg,
          canvas_h |-> mg + ph + pad + zh + mg,
          pano_pos |-> <<mg + (Max(pw, zw) - pw) \div 2, mg>>,
          zoom_pos |-> <<mg + (Max(pw, zw) - zw) \div 2, mg + ph + pad>>]
    ELSE [canvas_w |-> mg + Max(pw, zw) + mg,
          canvas_h |-> mg + zh + pad + ph + mg,
          pano_pos |-> <<mg + (Max(pw, zw) - pw) \div 2, mg + zh + pad>>,
          zoom_pos |-> <<mg + (Max(pw, zw) - zw) \div 2, mg>>]

BorderFromOne(bx1, by1, bx2, by2, t, color) ==
    IF t <= 0 THEN <<>>
    ELSE [i \in 1..t |->
            [op |-> "rectangle", x1 |-> bx1 - i, y1 |-> by1 - i,
             x2 |-> bx2 + i, y2 |-> by2 + i, color |-> color]]

\* lines 427-431, 439-443, 451-455: for i in range(t): draw.rectangle of the
\* box grown by i on every side
Border(bx1, by1, bx2, by2, t, color) ==
    IF t <= 0 THEN <<>>
    ELSE [i \in 1..t |->
            [op |-> "rectangle", x1 |-> bx1 - (i - 1), y1 |-> by1 - (i - 1),
             x2 |-> bx2 + (i - 1), y2 |-> by2 + (i - 1), color |-> color]]

\* lines 416-417: canvas.paste(image, pos)
Paste(name, pos, size) ==
    [op |-> "paste", image |-> name, x |-> pos[1], y |-> pos[2],
     w |-> size.w, h |-> size.h]

\* lines 434-437: the ROI box on the canvas
BoxX1 == pano_pos[1] + roi_x
BoxY1 == pano_pos[2] + roi_y
BoxX2 == BoxX1 + roi_w
BoxY2 == BoxY1 + roi_h
\* lines 446-449: the zoom border on the canvas
ZoomBoxX1 == zoom_pos[1]
ZoomBoxY1 == zoom_pos[2]
ZoomBoxX2 == zoom_pos[1] + zoom_img[1].w
ZoomBoxY2 == zoom_pos[2] + zoom_img[1].h

GuideLineCrossed(n, direction) ==
    IF direction = "right"
    THEN IF n = 1 THEN <<BoxX2, BoxY1, ZoomBoxX1, ZoomBoxY2>>
                  ELSE <<BoxX2, BoxY2, ZoomBoxX1, ZoomBoxY1>>
    ELSE IF direction = "left"
    THEN IF n = 1 THEN <<BoxX1, BoxY1, ZoomBoxX2, ZoomBoxY2>>
                  ELSE <<BoxX1, BoxY2, ZoomBoxX2, ZoomBoxY1>>
    ELSE IF direction = "bottom"
    THEN IF n = 1 THEN <<BoxX1, BoxY2, ZoomBoxX2, ZoomBoxY1>>
                  ELSE <<BoxX2, BoxY2, ZoomBoxX1, ZoomBoxY1>>
    ELSE IF n = 1 THEN <<BoxX1, BoxY1, ZoomBoxX2, ZoomBoxY2>>
                  ELSE <<BoxX2, BoxY1, ZoomBoxX1, ZoomBoxY2>>

\* lines 464-475: the n-th guide line <<x1, y1, x2, y2>>, by direction
GuideLine(n, direction) ==
    IF direction = "right"
    THEN IF n = 1 THEN <<BoxX2, BoxY1, ZoomBoxX1, ZoomBoxY1>>
                  ELSE <<BoxX2, BoxY2, ZoomBoxX1, ZoomBoxY2>>
    ELSE IF direction = "left"
    THEN IF n = 1 THEN <<BoxX1, BoxY1, ZoomBoxX2, ZoomBoxY1>>
                  ELSE <<BoxX1, BoxY2, ZoomBoxX2, ZoomBoxY2>>
    ELSE IF direction = "bottom"
    THEN IF n = 1 THEN <<BoxX1, BoxY2, ZoomBoxX1, ZoomBoxY1>>
                  ELSE <<BoxX2, BoxY2, ZoomBoxX2, ZoomBoxY1>>
    ELSE IF n = 1 THEN <<BoxX1, BoxY1, ZoomBoxX1, ZoomBoxY2>>
                  ELSE <<BoxX2, BoxY1, ZoomBoxX2, ZoomBoxY2>>

\* line 462: draw.line([start, end]): one stroke from the start point (at
\* distance 0) to the end point
SolidLine(line) ==
    [op |-> "line", from |-> 0, to |-> 0, clipped |-> TRUE,
     x1 |-> line[1], y1 |-> line[2], x2 |-> line[3], y2 |-> line[4]]

\* the arguments drawn
Directions == {"right", "left", "bottom", "top"}
RoiOffsets == {<<0, 0>>, <<MaxOffset, -MaxOffset>>}
ZoomScales == {PctScale, PctScale \div 2}
Paddings == {0, MaxPadding}
Thicknesses == {<<1, MaxThickness>>, <<MaxThickness, 1>>}
LineStyles == {"solid", "dashed"}

\* line 368: call find_roi_position
fig_locate ==
    /\ pc = "create_zoom_figure"
    /\ pc' = "find_roi_position"
    /\ stack' = <<"fig_offset">>
    /\ UNCHANGED <<appVars, fileVars, locVars, error, dashVars, drawn, figVars>>

\* lines 368-375: unpack the match, add roi_offset, warn on a confidence
\* under 0.5
fig_offset ==
    /\ pc = "fig_offset"
    /\ \E off \in RoiOffsets :
          /\ args' = [args EXCEPT !.roi_offset = off]
          /\ roi_x' = roi[1].x + off[1]
          /\ roi_y' = roi[1].y + off[2]
    /\ roi_w' = roi[1].w
    /\ roi_h' = roi[1].h
    /\ confidence' = roi[1].confidence
    /\ warned' = LowConfidence(roi[1].confidence)
    /\ pc' = "fig_load"
    /\ UNCHANGED <<appVars, fileVars, locVars, error, dashVars, drawn, stack>>
    /\ UNCHANGED <<imgVars, layoutVars, outVars>>

\* lines 377-387: open both images, resize the zoom image by zoom_scale
fig_load ==
    /\ pc = "fig_load"
    /\ \E zs \in ZoomScales :
          /\ args' = [args EXCEPT !.zoom_scale = zs]
          /\ zoom_img' = IF zs # PctScale
                         THEN Image(Resized(zoom_file[1].w, zs),
                                    Resized(zoom_file[1].h, zs))
                         ELSE zoom_file
    /\ panorama' = panorama_file
    /\ pc' = "fig_layout"
    /\ UNCHANGED <<appVars, fileVars, locVars, error, dashVars, drawn, stack>>
    /\ UNCHANGED <<boxVars, layoutVars, outVars>>

\* lines 389-412: the margin and the layout, for the arguments given
compute_layout(direction, pad, t) ==
    LET lay == Layout(direction, panorama[1].w, panorama[1].h,
                      zoom_img[1].w, zoom_img[1].h, pad, MarginOf(t[1], t[2]))
    IN  /\ pc = "fig_layout"
        /\ args' = [args EXCEPT !.zoom_position = direction,
                                !.padding = pad,
                                !.box_thickness = t[1],
                                !.zoom_box_thickness = t[2]]
        /\ margin' = MarginOf(t[1], t[2])
        /\ canvas_w' = lay.canvas_w
        /\ canvas_h' = lay.canvas_h
        /\ pano_pos' = lay.pano_pos
        /\ zoom_pos' = lay.zoom_pos
        /\ pc' = "fig_canvas"
        /\ UNCHANGED <<appVars, fileVars, locVars, error, dashVars, drawn, stack>>
        /\ UNCHANGED <<boxVars, imgVars, outVars>>

\* lines 389-412 within a whole figure
fig_layout ==
    \E direction \in Directions : \E pad \in Paddings : \E t \in Thicknesses :
        compute_layout(direction, pad, t)

\* lines 414-419: a white canvas with both images pasted
fig_canvas ==
    /\ pc = "fig_canvas"
    /\ canvas' = <<[w |-> canvas_w, h |-> canvas_h]>>
    /\ drawn' = <<Paste("panorama", pano_pos, panorama[1]),
                  Paste("zoom", zoom_pos, zoom_img[1])>>
    /\ pc' = "fig_borders"
    /\ UNCHANGED <<appVars, fileVars, locVars, error, dashVars, stack>>
    /\ UNCHANGED <<args, boxVars, imgVars, layoutVars, saved, result>>

fig_borders_roi_first ==
    /\ pc = "fig_borders"
    /\ drawn' = drawn
         \o Border(BoxX1, BoxY1, BoxX2, BoxY2, args.box_thickness, "box_color")
         \o Border(pano_pos[1], pano_pos[2], pano_pos[1] + panorama[1].w,
                   pano_pos[2] + panorama[1].h, args.zoom_box_thickness,
                   "zoom_box_color")
         \o Border(ZoomBoxX1, ZoomBoxY1, ZoomBoxX2, ZoomBoxY2,
                   args.zoom_box_thickness, "zoom_box_color")
    /\ pc' = "fig_guide1"
    /\ UNCHANGED <<appVars, fileVars, locVars, error, dashVars, stack, figVars>>

\* lines 421-455: the panorama border, the ROI box, the zoom border
fig_borders ==
    /\ pc = "fig_borders"
    /\ drawn' = drawn
         \o Border(pano_pos[1], pano_pos[2], pano_pos[1] + panorama[1].w,
                   pano_pos[2] + panorama[1].h, args.zoom_box_thickness,
                   "zoom_box_color")
         \o Border(BoxX1, BoxY1, BoxX2, BoxY2, args.box_thickness, "box_color")
         \o Border(ZoomBoxX1, ZoomBoxY1, ZoomBoxX2, ZoomBoxY2,
                   args.zoom_box_thickness, "zoom_box_color")
    /\ pc' = "fig_guide1"
    /\ UNCHANGED <<appVars, fileVars, locVars, error, dashVars, stack, figVars>>

\* lines 457-466 (468, 471, 474): the first guide line, solid or dashed
fig_guide1 ==
    /\ pc = "fig_guide1"
    /\ \E style \in LineStyles :
          /\ args' = [args EXCEPT !.line_style = style]
          /\ IF style = "dashed"
             THEN /\ dl' = DashArgs(GuideLine(1, args.zoom_position),
                                    args.dash_length, args.gap_length)
                  /\ pc' = "draw_dashed_line"
                  /\ stack' = <<"fig_guide2">>
                  /\ UNCHANGED drawn
             ELSE /\ drawn' = Append(drawn,
                                     SolidLine(GuideLine(1, args.zoom_position)))
                  /\ pc' = "fig_guide2"
                  /\ UNCHANGED <<dl, stack>>
    /\ UNCHANGED <<appVars, fileVars, locVars, error, current_pos, drawing>>
    /\ UNCHANGED <<boxVars, imgVars, layoutVars, outVars>>

\* lines 457-462, 466 (469, 472, 475): the second guide line
fig_guide2 ==
    /\ pc = "fig_guide2"
    /\ IF args.line_style = "dashed"
       THEN /\ dl' = DashArgs(GuideLine(2, args.zoom_position),
                              args.dash_length, args.gap_length)
            /\ pc' = "draw_dashed_line"
            /\ stack' = <<"fig_scale_bars">>
            /\ UNCHANGED drawn
       ELSE /\ drawn' = Append(drawn,
                               SolidLine(GuideLine(2, args.zoom_position)))
            /\ pc' = "fig_scale_bars"
            /\ UNCHANGED <<dl, stack>>
    /\ UNCHANGED <<appVars, fileVars, locVars, error, current_pos, drawing, figVars>>

---------------------------------------------------------------------------
(* create_zoom_figure: scale bars, annotations, watermark, save, return *)

\* int() of the rational n / d: truncation toward zero
TruncDiv(n, d) == IF n >= 0 THEN n \div d ELSE -((-n) \div d)

LengthPixelsRounded(length_um, ppu) ==
    (2 * length_um * ppu + PpuScale) \div (2 * PpuScale)

\* line 494: sb_length_pixels = int(sb_length_um * sb_pixels_per_um), with
\* pixels_per_um held in quarters
LengthPixels(length_um, ppu) == TruncDiv(length_um * ppu, PpuScale)

LabelMmAbove(length_um) ==
    IF length_um > MmFrom
    THEN [unit |-> "mm", whole |-> ((length_um + 50) \div 100) \div 10,
          tenth |-> ((length_um + 50) \div 100) % 10]
    ELSE [unit |-> "um", whole |-> length_um, tenth |-> 0]

\* lines 165-168: the label, "<x.y> mm" from 1000 um on (one decimal; the
\* lengths drawn are no rounding ties) and "<n> um" below
Label(length_um) ==
    IF length_um >= MmFrom
    THEN [unit |-> "mm", whole |-> ((length_um + 50) \div 100) \div 10,
          tenth |-> ((length_um + 50) \div 100) % 10]
    ELSE [unit |-> "um", whole |-> length_um, tenth |-> 0]

\* the text box draw.textbbox measures for a text with the font in use
TextBoxes(text_is_empty) ==
    IF text_is_empty THEN {<<0, 0>>} ELSE {<<MaxTextW, MaxTextH>>}

BarLine(ax, ay, bx, by, width) ==
    [op |-> "bar_line", x1 |-> ax, y1 |-> ay, x2 |-> bx, y2 |-> by,
     width |-> width]

DrawScaleBarShortTicks(bx, by, lp, cfg, tbox) ==
    LET t == cfg.thickness
        end_height == t * 3
        half == end_height \div 2
        ends == <<BarLine(bx, by - half, bx, by - half + end_height, t),
                  BarLine(bx + lp, by - half, bx + lp, by - half + end_height, t)>>
        mid_x == bx + lp \div 2
        mid_height == end_height \div 2
        text_x == bx + (lp - tbox[1]) \div 2
        text_y == IF cfg.style = "line"
                  THEN by - tbox[2] - cfg.text_gap
                  ELSE by - end_height - tbox[2] - cfg.text_gap
    IN  <<BarLine(bx, by, bx + lp, by, t)>>
        \o (IF cfg.style = "ends" THEN ends
            ELSE IF cfg.style = "ticks"
            THEN ends \o <<BarLine(mid_x, by - mid_height \div 2, mid_x,
                                   by - mid_height \div 2 + mid_height,
                                   Max(1, t \div 2))>>
            ELSE <<>>)
        \o <<[op |-> "bar_text", label |-> Label(cfg.length_um),
              x |-> text_x, y |-> text_y]>>

\* lines 139-181: draw_scale_bar at (bx, by): the bar, the ticks of the
\* style, the centred label
DrawScaleBar(bx, by, lp, cfg, tbox) ==
    LET t == cfg.thickness
        end_height == t * 3
        ends == <<BarLine(bx, by - end_height, bx, by + end_height, t),
                  BarLine(bx + lp, by - end_height, bx + lp, by + end_height, t)>>
        mid_x == bx + lp \div 2
        mid_height == end_height \div 2
        text_x == bx + (lp - tbox[1]) \div 2
        text_y == IF cfg.style = "line"
                  THEN by - tbox[2] - cfg.text_gap
                  ELSE by - end_height - tbox[2] - cfg.text_gap
    IN  <<BarLine(bx, by, bx + lp, by, t)>>
        \o (IF cfg.style = "ends" THEN ends
            ELSE IF cfg.style = "ticks"
            THEN ends \o <<BarLine(mid_x, by - mid_height, mid_x,
                                   by + mid_height, Max(1, t \div 2))>>
            ELSE <<>>)
        \o <<[op |-> "bar_text", label |-> Label(cfg.length_um),
              x |-> text_x, y |-> text_y]>>

ScaleBarXNoLength(cfg, lp) ==
    IF cfg.position = "panorama"
    THEN IF cfg.corner = "left" THEN pano_pos[1] + cfg.offset_x
         ELSE pano_pos[1] + panorama[1].w - cfg.offset_x
    ELSE IF cfg.corner = "left" THEN zoom_pos[1] + cfg.offset_x
         ELSE zoom_pos[1] + zoom_img[1].w - cfg.offset_x

\* lines 496-507: the anchor of the bar on its target image
ScaleBarX(cfg, lp) ==
    IF cfg.position = "panorama"
    THEN IF cfg.corner = "left" THEN pano_pos[1] + cfg.offset_x
         ELSE pano_pos[1] + panorama[1].w - lp - cfg.offset_x
    ELSE IF cfg.corner = "left" THEN zoom_pos[1] + cfg.offset_x
         ELSE zoom_pos[1] + zoom_img[1].w - lp - cfg.offset_x

ScaleBarY(cfg) ==
    IF cfg.position = "panorama"
    THEN pano_pos[2] + panorama[1].h - cfg.offset_y
    ELSE zoom_pos[2] + zoom_img[1].h - cfg.offset_y

DrawSingleScaleBarPositive(cfg, tbox) ==
    IF ~cfg.enabled \/ LengthPixels(cfg.length_um, cfg.pixels_per_um) <= 0
    THEN <<>>
    ELSE LET lp == LengthPixels(cfg.length_um, cfg.pixels_per_um)
         IN  DrawScaleBar(ScaleBarX(cfg, lp), ScaleBarY(cfg), lp, cfg, tbox)

DrawSingleScaleBarAlways(cfg, tbox) ==
    LET lp == LengthPixels(cfg.length_um, cfg.pixels_per_um)
    IN  DrawScaleBar(ScaleBarX(cfg, lp), ScaleBarY(cfg), lp, cfg, tbox)

\* lines 478-510: draw_single_scale_bar: nothing for a missing or disabled
\* config, else the bar at its anchor
DrawSingleScaleBar(cfg, tbox) ==
    IF ~cfg.enabled THEN <<>>
    ELSE LET lp == LengthPixels(cfg.length_um, cfg.pixels_per_um)
         IN  DrawScaleBar(ScaleBarX(cfg, lp), ScaleBarY(cfg), lp, cfg, tbox)

\* lines 512-517: every config of the list (a single dict is a list of one;
\* None, an empty dict and an empty list are the empty list)
RECURSIVE DrawScaleBars(_, _)
DrawScaleBars(cfgs, tbox) ==
    IF cfgs = <<>> THEN <<>>
    ELSE DrawSingleScaleBar(Head(cfgs), tbox) \o DrawScaleBars(Tail(cfgs), tbox)

AbsPosPanorama(ann) ==
    <<pano_pos[1] + ann.position[1], pano_pos[2] + ann.position[2]>>

\* lines 527-530: the canvas position of an annotation
AbsPos(ann) ==
    IF ann.target = "panorama"
    THEN <<pano_pos[1] + ann.position[1], pano_pos[2] + ann.position[2]>>
    ELSE <<zoom_pos[1] + ann.position[1], zoom_pos[2] + ann.position[2]>>

\* lines 233-257: the arrow of the given direction from (ax, ay): its
\* stroke and its filled head
Arrow(ax, ay, ann) ==
    LET len == ann.size
        hl == ann.size \div 3
        hw == ann.size \div 4
        ex == IF ann.direction = "left" THEN ax - len
              ELSE IF ann.direction = "right" THEN ax + len ELSE ax
        ey == IF ann.direction = "up" THEN ay - len
              ELSE IF ann.direction = "down" THEN ay + len ELSE ay
        head == IF ann.direction = "up"
                THEN <<<<ax, ey>>, <<ax - hw, ey + hl>>, <<ax + hw, ey + hl>>>>
                ELSE IF ann.direction = "down"
                THEN <<<<ax, ey>>, <<ax - hw, ey - hl>>, <<ax + hw, ey - hl>>>>
                ELSE IF ann.direction = "left"
                THEN <<<<ex, ay>>, <<ex + hl, ay - hw>>, <<ex + hl, ay + hw>>>>
                ELSE <<<<ex, ay>>, <<ex - hl, ay - hw>>, <<ex - hl, ay + hw>>>>
    IN  IF ann.direction \in {"up", "down", "left", "right"}
        THEN <<[op |-> "ann_line", x1 |-> ax, y1 |-> ay, x2 |-> ex, y2 |-> ey,
                width |-> ann.thickness],
               [op |-> "ann_polygon", points |-> head, filled |-> TRUE]>>
        ELSE <<>>

\* lines 214-281: draw_annotation at the position it is given
DrawAnnotation(ann, pos) ==
    LET ax == pos[1]
        ay == pos[2]
    IN  IF ann.type = "arrow" THEN Arrow(ax, ay, ann)
        ELSE IF ann.type = "star"
        THEN <<[op |-> "ann_text", text |-> "*", x |-> ax - ann.size \div 2,
                y |-> ay - ann.size, font_size |-> ann.size * 2]>>
        ELSE IF ann.type = "circle"
        THEN <<[op |-> "ann_ellipse", x1 |-> ax - ann.size, y1 |-> ay - ann.size,
                x2 |-> ax + ann.size, y2 |-> ay + ann.size,
                width |-> ann.thickness]>>
        ELSE IF ann.type = "triangle"
        THEN <<[op |-> "ann_polygon",
                points |-> <<<<ax, ay - ann.size>>, <<ax - ann.size, ay + ann.size>>,
                             <<ax + ann.size, ay + ann.size>>>>,
                filled |-> FALSE]>>
        ELSE IF ann.type = "text" /\ ann.text # ""
        THEN <<[op |-> "ann_text", text |-> ann.text, x |-> ax, y |-> ay,
                font_size |-> ann.font_size]>>
        ELSE <<>>

RECURSIVE DrawAnnotationsReversed(_)
DrawAnnotationsReversed(anns) ==
    IF anns = <<>> THEN <<>>
    ELSE DrawAnnotationsReversed(Tail(anns))
         \o DrawAnnotation(Head(anns), AbsPos(Head(anns)))

\* lines 520-542: the annotations, in list order
RECURSIVE DrawAnnotations(_)
DrawAnnotations(anns) ==
    IF anns = <<>> THEN <<>>
    ELSE DrawAnnotation(Head(anns), AbsPos(Head(anns)))
         \o DrawAnnotations(Tail(anns))

WatermarkXYCorner(position, iw, ih, tbox) ==
    IF position = "bottom-right"
    THEN <<iw - WatermarkMargin, ih - WatermarkMargin>>
    ELSE IF position = "bottom-left"
    THEN <<WatermarkMargin, ih - WatermarkMargin>>
    ELSE IF position = "top-right"
    THEN <<iw - WatermarkMargin, WatermarkMargin>>
    ELSE IF position = "top-left"
    THEN <<WatermarkMargin, WatermarkMargin>>
    ELSE <<(iw - tbox[1]) \div 2, (ih - tbox[2]) \div 2>>

\* lines 312-329: the origin of the watermark text on an image of size
\* (iw, ih), for a measured text box tbox
WatermarkXY(position, iw, ih, tbox) ==
    IF position = "bottom-right"
    THEN <<iw - tbox[1] - WatermarkMargin, ih - tbox[2] - WatermarkMargin>>
    ELSE IF position = "bottom-left"
    THEN <<WatermarkMargin, ih - tbox[2] - WatermarkMargin>>
    ELSE IF position = "top-right"
    THEN <<iw - tbox[1] - WatermarkMargin, WatermarkMargin>>
    ELSE IF position = "top-left"
    THEN <<WatermarkMargin, WatermarkMargin>>
    ELSE <<(iw - tbox[1]) \div 2, (ih - tbox[2]) \div 2>>

\* lines 300-340: draw_watermark: the text on a transparent layer,
\* composited over the image
DrawWatermark(wm, iw, ih, tbox) ==
    <<[op |-> "watermark", text |-> wm.text,
       x |-> WatermarkXY(wm.position, iw, ih, tbox)[1],
       y |-> WatermarkXY(wm.position, iw, ih, tbox)[2],
       text_w |-> tbox[1], text_h |-> tbox[2]]>>

\* a scale-bar config; pixels_per_um in quarters
ScaleBar(enabled, position, corner, length_um, ppu, style) ==
    [enabled |-> enabled, position |-> position, corner |-> corner,
     offset_x |-> MaxOffset, offset_y |-> MaxOffset + 1,
     length_um |-> length_um, pixels_per_um |-> ppu,
     thickness |-> MaxThickness, style |-> style, text_gap |-> 1]

Annotation(type, target, position, text, direction) ==
    [type |-> type, target |-> target, position |-> position,
     size |-> 4, thickness |-> MaxThickness, text |-> text, font_size |-> 4,
     direction |-> direction]

Watermark(enabled, text, position) ==
    <<[enabled |-> enabled, text |-> text, position |-> position]>>

\* the optional arguments drawn by a whole figure
ScaleBarArgs ==
    {<<>>,
     <<ScaleBar(FALSE, "zoom", "right", 100, PpuScale, "ticks")>>,
     <<ScaleBar(TRUE, "panorama", "left", 3, 2, "ends")>>,
     <<ScaleBar(TRUE, "zoom", "right", 0, PpuScale, "ticks")>>,
     <<ScaleBar(TRUE, "zoom", "left", -3, PpuScale, "line")>>,
     <<ScaleBar(FALSE, "panorama", "left", 3, PpuScale, "ends"),
       ScaleBar(TRUE, "zoom", "right", 2, 2 * PpuScale, "line")>>}

AnnotationArgs ==
    {<<>>,
     <<Annotation("arrow", "panorama", <<2, 3>>, "", "up")>>,
     <<Annotation("text", "zoom", <<1, 1>>, "a", "up"),
       Annotation("circle", "panorama", <<5, 4>>, "", "up")>>,
     <<Annotation("star", "zoom", <<3, 2>>, "", "up"),
       Annotation("triangle", "panorama", <<4, 6>>, "", "up"),
       Annotation("arrow", "zoom", <<6, 1>>, "", "left")>>}

WatermarkArgs ==
    {<<>>, Watermark(FALSE, "Leo", "center"),
     Watermark(TRUE, "Leo", "bottom-right"), Watermark(TRUE, "", "top-left")}

\* lines 477-517: the scale bars of the argument given, the label measuring
\* tbox
draw_scale_bars(sb, tbox) ==
    /\ pc = "fig_scale_bars"
    /\ args' = [args EXCEPT !.scale_bar = sb]
    /\ drawn' = drawn \o DrawScaleBars(sb, tbox)
    /\ pc' = "fig_annotations"
    /\ UNCHANGED <<appVars, fileVars, locVars, error, dashVars, stack>>
    /\ UNCHANGED <<boxVars, imgVars, layoutVars, outVars>>

\* lines 477-517 within a whole figure
fig_scale_bars ==
    \E sb \in ScaleBarArgs : \E tbox \in TextBoxes(FALSE) :
        draw_scale_bars(sb, tbox)

\* lines 519-542: the annotations
fig_annotations ==
    /\ pc = "fig_annotations"
    /\ \E anns \in AnnotationArgs :
          /\ args' = [args EXCEPT !.annotations = anns]
          /\ drawn' = drawn \o DrawAnnotations(anns)
    /\ pc' = "fig_watermark"
    /\ UNCHANGED <<appVars, fileVars, locVars, error, dashVars, stack>>
    /\ UNCHANGED <<boxVars, imgVars, layoutVars, outVars>>

\* lines 544-553: the watermark of the argument given, when it is given and
\* enabled, its text measuring one of the boxes
apply_watermark(wm, boxes) ==
    /\ pc = "fig_watermark"
    /\ args' = [args EXCEPT !.watermark = wm]
    /\ IF wm # <<>> /\ wm[1].enabled
       THEN \E tbox \in boxes :
               drawn' = drawn \o DrawWatermark(wm[1], canvas[1].w,
                                               canvas[1].h, tbox)
       ELSE UNCHANGED drawn
    /\ pc' = "fig_save"
    /\ UNCHANGED <<appVars, fileVars, locVars, error, dashVars, stack>>
    /\ UNCHANGED <<boxVars, imgVars, layoutVars, outVars>>

\* lines 544-553 within a whole figure
fig_watermark ==
    \E wm \in WatermarkArgs :
        apply_watermark(wm, TextBoxes(wm # <<>> /\ wm[1].text = ""))

\* lines 555-557: canvas.save(output_path)
fig_save ==
    /\ pc = "fig_save"
    /\ saved' = <<drawn>>
    /\ pc' = "fig_return"
    /\ UNCHANGED <<appVars, fileVars, locVars, error, dashVars, stack, drawn>>
    /\ UNCHANGED <<args, boxVars, imgVars, layoutVars, canvas, result>>

fig_return_unshifted ==
    /\ pc = "fig_return"
    /\ result' = <<[roi_x |-> roi[1].x, roi_y |-> roi[1].y, roi_w |-> roi_w,
                    roi_h |-> roi_h, confidence |-> confidence,
                    pano_pos |-> pano_pos, zoom_pos |-> zoom_pos,
                    canvas |-> drawn]>>
    /\ pc' = "done"
    /\ UNCHANGED <<appVars, fileVars, locVars, error, dashVars, stack, drawn>>
    /\ UNCHANGED <<args, boxVars, imgVars, layoutVars, canvas, saved>>

\* lines 559-567: return canvas, metadata
fig_return ==
    /\ pc = "fig_return"
    /\ result' = <<[roi_x |-> roi_x, roi_y |-> roi_y, roi_w |-> roi_w,
                    roi_h |-> roi_h, confidence |-> confidence,
                    pano_pos |-> pano_pos, zoom_pos |-> zoom_pos,
                    canvas |-> drawn]>>
    /\ pc' = "done"
    /\ UNCHANGED <<appVars, fileVars, locVars, error, dashVars, stack, drawn>>
    /\ UNCHANGED <<args, boxVars, imgVars, layoutVars, canvas, saved>>

-----------------------------------------------------------------------------
(* HistoryManager *)

\* HistoryManager.__init__: an empty history
HistIdle ==
    /\ history = <<>>
    /\ current_index = -1
    /\ max_history = DefaultMaxHistory
    /\ returned = <<>>
    /\ hlog = <<>>

can_undo == current_index > 0
can_redo == current_index < Len(history) - 1
undo_count == current_index

\* history[current_index] for a Python (0-based) index i
Current(h, i) == h[i + 1]

KeptAll(h, i) == h

\* push: the states after the current position are discarded
Kept(h, i) == IF i < Len(h) - 1 THEN SubSeq(h, 1, i + 1) ELSE h

OverflowsNever(h, max) == FALSE

Overflows(h, max) == Len(h) > max

\* the entry of hlog: the operation, the state pushed (<<>> for the other
\* operations) and the history it started from
Logged(op, pushed) ==
    <<[op |-> op, state |-> pushed, history |-> history,
       current_index |-> current_index]>>

HistoryManager_push(state) ==
    LET appended == Append(Kept(history, current_index), state) IN
    /\ IF Overflows(appended, max_history)
       THEN /\ history' = Tail(appended)
            /\ UNCHANGED current_index
       ELSE /\ history' = appended
            /\ current_index' = current_index + 1
    /\ UNCHANGED <<max_history, returned>>

HistoryManager_undo ==
    /\ IF can_undo
       THEN /\ current_index' = current_index - 1
            /\ returned' = <<Current(history, current_index - 1)>>
       ELSE /\ UNCHANGED current_index
            /\ returned' = <<>>
    /\ UNCHANGED <<history, max_history>>

HistoryManager_redo ==
    /\ IF can_redo
       THEN /\ current_index' = current_index + 1
            /\ returned' = <<Current(history, current_index + 1)>>
       ELSE /\ UNCHANGED current_index
            /\ returned' = <<>>
    /\ UNCHANGED <<history, max_history>>

HistoryManager_clear ==
    /\ history' = <<>>
    /\ current_index' = -1
    /\ UNCHANGED <<max_history, returned>>

-----------------------------------------------------------------------------
(* PreviewDebouncer *)

\* PreviewDebouncer.__init__: no job; no timer is pending in Tk
DebIdle ==
    /\ job = <<>>
    /\ timers = {}
    /\ after_count = 0
    /\ now = 0
    /\ ran = <<>>
    /\ dlog = ""

\* root.after_cancel(id): the timer of that id, if it is still pending, is
\* removed
AfterCancel(pending, id) == {t \in pending : t.id # id}

\* root.after(delay, f): a timer with a fresh id, due delay from now
After(pending, id, delay) ==
    pending \cup {[id |-> id, set_at |-> now, due |-> now + delay]}

CancelledNone(pending) == pending

\* the pending timers once the job held in _job, if any, is cancelled
Cancelled(pending) ==
    IF job # <<>> THEN AfterCancel(pending, job[1]) ELSE pending

PreviewDebouncer_trigger ==
    /\ after_count < MaxAfter
    /\ now + DebounceDelay <= MaxTime
    /\ timers' = After(Cancelled(timers), after_count + 1, DebounceDelay)
    /\ job' = <<after_count + 1>>
    /\ after_count' = after_count + 1
    /\ dlog' = "trigger"
    /\ UNCHANGED <<now, ran>>

\* a timer that is due fires: Tk forgets it and calls _execute, which
\* clears _job and runs the callback
PreviewDebouncer_execute(t) ==
    /\ t \in timers
    /\ now >= t.due
    /\ timers' = timers \ {t}
    /\ job' = <<>>
    /\ ran' = Append(ran, [id |-> t.id, set_at |-> t.set_at, at |-> now,
                           count |-> after_count])
    /\ dlog' = "_execute"
    /\ UNCHANGED <<after_count, now>>

PreviewDebouncer_cancel ==
    /\ timers' = Cancelled(timers)
    /\ job' = <<>>
    /\ dlog' = "cancel"
    /\ UNCHANGED <<after_count, now, ran>>

\* the clock advances
tick ==
    /\ now + ClockStep <= MaxTime
    /\ now' = now + ClockStep
    /\ UNCHANGED <<job, timers, after_count, ran, dlog>>

-----------------------------------------------------------------------------
(* ROIZoomGUI: the settings, undo and redo, the annotation clicks *)

\* the settings save_state records.  Its eight other fields (the scale-bar
\* and watermark settings) are bound to widgets that none of the handlers
\* below changes; they are left out.
Settings(x, y, anns) ==
    [roi_offset_x |-> x, roi_offset_y |-> y, annotations |-> anns]

\* the handler run last, and the canvas point it was given (<<>> when it
\* takes none)
Event(handler, point) == [handler |-> handler, point |-> point]

\* no GUI is running
GuiIdle ==
    /\ settings = Settings(0, 0, <<>>)
    /\ unmodified = <<>>
    /\ event = Event("", <<>>)
    /\ status = 0
    /\ adding_annotation = FALSE
    /\ preview_scale = PctScale

\* BatchProcessDialog.__init__ with no pairs added
BatchIdle ==
    /\ file_pairs = <<>>
    /\ tree = <<>>
    /\ processing = FALSE
    /\ start_btn = "normal"
    /\ cancel_btn = "disabled"
    /\ worker = "none"
    /\ iterated = <<>>
    /\ wi = 0
    /\ aliased = FALSE
    /\ pair = <<>>
    /\ success = 0
    /\ failed = 0
    /\ batch_list = <<>>
    /\ started = <<>>

AppIdle == HistIdle /\ GuiIdle /\ DebIdle /\ BatchIdle

\* lines 1607-1615: generate_preview runs create_zoom_figure on the current
\* settings (its steps are the actions of Spec).  Here the run is taken whole
\* on the layout already computed for the two images: of its canvas the
\* pasted images and the annotations are kept, and the returned metadata.
generate_preview ==
    /\ drawn' = <<Paste("panorama", pano_pos, panorama[1]),
                  Paste("zoom", zoom_pos, zoom_img[1])>>
                \o DrawAnnotations(settings'.annotations)
    /\ result' = <<[roi_x |-> roi_x, roi_y |-> roi_y, roi_w |-> roi_w,
                    roi_h |-> roi_h, confidence |-> confidence,
                    pano_pos |-> pano_pos, zoom_pos |-> zoom_pos,
                    canvas |-> drawn']>>

\* lines 387-391: a preview only when both images are chosen
auto_preview ==
    IF panorama # <<>> /\ zoom_img # <<>>
    THEN generate_preview
    ELSE UNCHANGED renderVars

\* lines 323-339: save_state pushes the settings and updates the status bar
save_state ==
    /\ HistoryManager_push(settings)
    /\ status' = current_index'

\* lines 341-356
restore_state(state) == settings' = state

\* lines 1288-1292: the spinbox of the ROI offset sets the variable it is
\* bound to and triggers the preview; nothing is saved
roi_x_spin(v) ==
    /\ pc = "mainloop"
    /\ settings' = [settings EXCEPT !.roi_offset_x = v]
    /\ event' = Event("roi_x_spin", <<>>)
    /\ PreviewDebouncer_trigger
    /\ UNCHANGED <<histVars, unmodified, status, adding_annotation, preview_scale>>
    /\ UNCHANGED coreVars

reset_roi_offset ==
    /\ pc = "mainloop"
    /\ save_state
    /\ settings' = [settings EXCEPT !.roi_offset_x = 0, !.roi_offset_y = 0]
    /\ unmodified' = <<settings>>
    /\ event' = Event("reset_roi_offset", <<>>)
    /\ PreviewDebouncer_trigger
    /\ UNCHANGED <<hlog, adding_annotation, preview_scale>>
    /\ UNCHANGED coreVars

\* lines 1052-1060: refused until a preview has been generated
start_adding_annotation ==
    /\ pc = "mainloop"
    /\ result # <<>>
    /\ adding_annotation' = TRUE
    /\ event' = Event("start_adding_annotation", <<>>)
    /\ UNCHANGED <<histVars, settings, unmodified, status, preview_scale, debVars>>
    /\ UNCHANGED coreVars

\* lines 1735-1740: int(canvas_x / preview_scale), the scale in percent
ImagePoint(c) ==
    IF preview_scale # 0
    THEN <<TruncDiv(c[1] * PctScale, preview_scale),
           TruncDiv(c[2] * PctScale, preview_scale)>>
    ELSE c

RelativeToPanorama(img, target) ==
    <<img[1] - result[1].pano_pos[1], img[2] - result[1].pano_pos[2]>>

\* lines 1743-1755: the position relative to the image of the target, by the
\* metadata of the last result
Relative(img, target) ==
    IF target = "panorama"
    THEN <<img[1] - result[1].pano_pos[1], img[2] - result[1].pano_pos[2]>>
    ELSE <<img[1] - result[1].zoom_pos[1], img[2] - result[1].zoom_pos[2]>>

\* lines 1718-1778: a click at the canvas point c while an annotation of the
\* tool chosen is being added to the target chosen
on_canvas_click(c, tool, target) ==
    /\ pc = "mainloop"
    /\ adding_annotation
    /\ result # <<>>
    /\ save_state
    /\ settings' =
         [settings EXCEPT !.annotations =
             Append(@, Annotation(tool, target,
                                  Relative(ImagePoint(c), target), "", "up"))]
    /\ unmodified' = <<settings>>
    /\ adding_annotation' = FALSE
    /\ event' = Event("on_canvas_click", c)
    /\ PreviewDebouncer_trigger
    /\ UNCHANGED <<hlog, preview_scale>>
    /\ UNCHANGED coreVars

\* del self.annotations[idx], idx counted from 1
Deleted(anns, idx) ==
    SubSeq(anns, 1, idx - 1) \o SubSeq(anns, idx + 1, Len(anns))

\* lines 1126-1134: the annotation selected in the list, if any
delete_selected_annotation(idx) ==
    /\ pc = "mainloop"
    /\ idx \in 1..Len(settings.annotations)
    /\ save_state
    /\ settings' = [settings EXCEPT !.annotations = Deleted(@, idx)]
    /\ unmodified' = <<settings>>
    /\ event' = Event("delete_selected_annotation", <<>>)
    /\ PreviewDebouncer_trigger
    /\ UNCHANGED <<hlog, adding_annotation, preview_scale>>
    /\ UNCHANGED coreVars

\* lines 307-313
ROIZoomGUI_undo ==
    /\ pc = "mainloop"
    /\ HistoryManager_undo
    /\ IF returned' # <<>>
       THEN /\ restore_state(returned'[1])
            /\ status' = current_index'
            /\ auto_preview
       ELSE UNCHANGED <<settings, status, renderVars>>
    /\ unmodified' = <<>>
    /\ event' = Event("undo", <<>>)
    /\ UNCHANGED <<hlog, adding_annotation, preview_scale, debVars>>
    /\ UNCHANGED stillVars

\* lines 315-321
ROIZoomGUI_redo ==
    /\ pc = "mainloop"
    /\ HistoryManager_redo
    /\ IF returned' # <<>>
       THEN /\ restore_state(returned'[1])
            /\ status' = current_index'
            /\ auto_preview
       ELSE UNCHANGED <<settings, status, renderVars>>
    /\ unmodified' = <<>>
    /\ event' = Event("redo", <<>>)
    /\ UNCHANGED <<hlog, adding_annotation, preview_scale, debVars>>
    /\ UNCHANGED stillVars

\* the timer of the debouncer fires in the GUI: its callback is auto_preview
debouncer_execute ==
    /\ pc = "mainloop"
    /\ \E t \in timers : PreviewDebouncer_execute(t)
    /\ UNCHANGED settings
    /\ auto_preview
    /\ UNCHANGED <<histVars, unmodified, event, status, adding_annotation,
                   preview_scale>>
    /\ UNCHANGED stillVars

\* time passes in the GUI
gui_tick ==
    /\ pc = "mainloop"
    /\ tick
    /\ UNCHANGED <<histVars, guiVars, coreVars>>

-----------------------------------------------------------------------------
(* BatchProcessDialog *)

\* lines 2183-2190: the row selected is deleted from the tree and the pair
\* of its index from the list, in place
remove_selected(idx) ==
    /\ idx \in 1..Len(tree)
    /\ tree' = Deleted(tree, idx)
    /\ file_pairs' = IF idx <= Len(file_pairs) THEN Deleted(file_pairs, idx)
                     ELSE file_pairs
    /\ iterated' = IF aliased THEN file_pairs' ELSE iterated
    /\ UNCHANGED <<processing, start_btn, cancel_btn, worker, wi, aliased,
                   pair, success, failed, batch_list, started>>
    /\ UNCHANGED <<toolVars, histVars, guiVars, debVars>>

\* lines 2192-2195: the tree is emptied and file_pairs is bound to a new
\* list; a loop that iterates the old list keeps it
clear_list ==
    /\ tree # <<>> \/ file_pairs # <<>>
    /\ tree' = <<>>
    /\ file_pairs' = <<>>
    /\ aliased' = FALSE
    /\ UNCHANGED <<processing, start_btn, cancel_btn, worker, iterated, wi,
                   pair, success, failed, batch_list, started>>
    /\ UNCHANGED <<toolVars, histVars, guiVars, debVars>>

\* lines 2203-2220: the start button, while it is enabled
start_processing ==
    /\ start_btn = "normal"
    /\ file_pairs # <<>>
    /\ processing' = TRUE
    /\ start_btn' = "disabled"
    /\ cancel_btn' = "normal"
    /\ worker' = "process_files"
    /\ started' = <<>>
    /\ UNCHANGED <<file_pairs, tree, iterated, wi, aliased, pair, success,
                   failed, batch_list>>
    /\ UNCHANGED <<toolVars, histVars, guiVars, debVars>>

\* lines 2288-2291: the cancel button, while it is enabled
cancel_processing ==
    /\ cancel_btn = "normal"
    /\ processing' = FALSE
    /\ UNCHANGED <<file_pairs, tree, start_btn, cancel_btn, worker, iterated,
                   wi, aliased, pair, success, failed, batch_list, started>>
    /\ UNCHANGED <<toolVars, histVars, guiVars, debVars>>

\* lines 2224-2231: the counters, and the iterator over self.file_pairs
process_files_begin ==
    /\ worker = "process_files"
    /\ success' = 0
    /\ failed' = 0
    /\ iterated' = file_pairs
    /\ aliased' = TRUE
    /\ wi' = 0
    /\ batch_list' = file_pairs
    /\ worker' = "for"
    /\ UNCHANGED <<file_pairs, tree, processing, start_btn, cancel_btn, pair,
                   started>>
    /\ UNCHANGED <<toolVars, histVars, guiVars, debVars>>

\* line 2231: the iterator yields the element at its index while the index
\* is inside the list
process_files_for ==
    /\ worker = "for"
    /\ IF wi < Len(iterated)
       THEN /\ pair' = <<iterated[wi + 1]>>
            /\ wi' = wi + 1
            /\ worker' = "if"
       ELSE /\ worker' = "finish"
            /\ UNCHANGED <<pair, wi>>
    /\ UNCHANGED <<file_pairs, tree, processing, start_btn, cancel_btn,
                   iterated, aliased, success, failed, batch_list, started>>
    /\ UNCHANGED <<toolVars, histVars, guiVars, debVars>>

\* lines 2232-2233: the loop is left when processing is off; otherwise the
\* pair is started on
process_files_if ==
    /\ worker = "if"
    /\ IF processing
       THEN /\ worker' = "item"
            /\ started' = Append(started, pair[1])
       ELSE /\ worker' = "finish"
            /\ UNCHANGED started
    /\ UNCHANGED <<file_pairs, tree, processing, start_btn, cancel_btn,
                   iterated, wi, aliased, pair, success, failed, batch_list>>
    /\ UNCHANGED <<toolVars, histVars, guiVars, debVars>>

\* lines 2240-2243: the row of index i, outside the try block: with no such
\* row the IndexError ends the thread
process_files_item ==
    /\ worker = "item"
    /\ worker' = IF wi <= Len(tree) THEN "create_zoom_figure" ELSE "raised"
    /\ UNCHANGED <<file_pairs, tree, processing, start_btn, cancel_btn,
                   iterated, wi, aliased, pair, success, failed, batch_list,
                   started>>
    /\ UNCHANGED <<toolVars, histVars, guiVars, debVars>>

\* lines 2245-2274: create_zoom_figure returns or raises (its steps are the
\* actions of Spec) and the pair is counted
process_files_count ==
    /\ worker = "create_zoom_figure"
    /\ IF pair[1].ok
       THEN success' = success + 1 /\ UNCHANGED failed
       ELSE failed' = failed + 1 /\ UNCHANGED success
    /\ worker' = "for"
    /\ UNCHANGED <<file_pairs, tree, processing, start_btn, cancel_btn,
                   iterated, wi, aliased, pair, batch_list, started>>
    /\ UNCHANGED <<toolVars, histVars, guiVars, debVars>>

\* lines 2276-2281
process_files_finish ==
    /\ worker = "finish"
    /\ processing' = FALSE
    /\ start_btn' = "normal"
    /\ cancel_btn' = "disabled"
    /\ worker' = "ended"
    /\ UNCHANGED <<file_pairs, tree, iterated, wi, aliased, pair, success,
                   failed, batch_list, started>>
    /\ UNCHANGED <<toolVars, histVars, guiVars, debVars>>

---------------------------------------------------------------------------
(* Specifications *)

\* find_roi_position called on its own, on every pair of files
InitLocate ==
    /\ AppIdle
    /\ panorama_file \in PanoFiles
    /\ zoom_file \in ZoomFiles
    /\ pc = "find_roi_position"
    /\ stack = <<>>
    /\ error = ""
    /\ LocIdle
    /\ DashIdle
    /\ drawn = <<>>
    /\ FigIdle

NextLocate ==
    \/ find_roi_position_read
    \/ find_roi_position_skip
    \/ find_roi_position_match
    \/ find_roi_position_raise
    \/ find_roi_position_return

SpecLocate == InitLocate /\ [][NextLocate]_vars

\* draw_dashed_line called on its own
\* the lines drawn in the stand-alone runs: x1, y1, x2, y2
DashLines ==
    {<<0, 0, 100, 0>>, <<0, 0, 0, 0>>, <<5, 5, 5, 5>>, <<0, 0, 30, 40>>,
     <<0, 0, 7, 3>>, <<20, 5, 0, 5>>, <<3, 40, 3, 2>>, <<10, 30, 1, 1>>,
     <<0, 0, MaxLineDim, 1>>}
DashLengths == {1, 5, DefaultDash, MaxDash}
GapLengths == {0, 3, DefaultGap, MaxGap}

InitDash ==
    /\ AppIdle
    /\ panorama_file = Unreadable
    /\ zoom_file = Unreadable
    /\ pc = "draw_dashed_line"
    /\ stack = <<>>
    /\ error = ""
    /\ LocIdle
    /\ \E line \in DashLines : \E dash \in DashLengths : \E gap \in GapLengths :
          dl = DashArgs(line, dash, gap)
    /\ current_pos = 0
    /\ drawing = TRUE
    /\ drawn = <<>>
    /\ FigIdle

NextDash ==
    \/ draw_dashed_line_enter
    \/ draw_dashed_line_dash
    \/ draw_dashed_line_gap
    \/ draw_dashed_line_return

SpecDash == InitDash /\ [][NextDash]_vars


\* create_zoom_figure called on a pair of files
FigPanoFiles == {Unreadable, Image(MaxPanoDim, MaxPanoDim),
                 Image(MinTemplate + 1, MaxPanoDim)}
FigZoomFiles == {Unreadable, Image(MinTemplate + 2, MinTemplate),
                 Image(MinTemplate - 1, MinTemplate - 1)}

Init ==
    /\ AppIdle
    /\ panorama_file \in FigPanoFiles
    /\ zoom_file \in FigZoomFiles
    /\ pc = "create_zoom_figure"
    /\ stack = <<>>
    /\ error = ""
    /\ LocIdle
    /\ DashIdle
    /\ drawn = <<>>
    /\ FigIdle

Next ==
    \/ fig_locate
    \/ find_roi_position_read
    \/ find_roi_position_skip
    \/ find_roi_position_match
    \/ find_roi_position_raise
    \/ find_roi_position_return
    \/ fig_offset
    \/ fig_load
    \/ fig_layout
    \/ fig_canvas
    \/ fig_borders
    \/ fig_guide1
    \/ fig_guide2
    \/ draw_dashed_line_enter
    \/ draw_dashed_line_dash
    \/ draw_dashed_line_gap
    \/ draw_dashed_line_return
    \/ fig_scale_bars
    \/ fig_annotations
    \/ fig_watermark
    \/ fig_save
    \/ fig_return

Spec == Init /\ [][Next]_vars


\* the layout of lines 389-417 on its own: any two loaded images, any
\* direction, padding and thicknesses
LayoutSizes == {<<200, 100>>, <<80, 80>>, <<MaxLayoutDim, 1>>,
                <<1, MaxLayoutDim>>, <<MinTemplate, MinTemplate + 1>>}
LayoutPaddings == {-MaxPadding, -1, 0, 1, 20, MaxPadding, DefaultPadding}
LayoutThicknesses == {<<1, 1>>, <<DefaultThickness, DefaultThickness>>,
                      <<1, MaxThickness>>, <<MaxThickness, 1>>}

InitLayout ==
    /\ AppIdle
    /\ panorama_file = Unreadable
    /\ zoom_file = Unreadable
    /\ pc = "fig_layout"
    /\ stack = <<>>
    /\ error = ""
    /\ LocIdle
    /\ DashIdle
    /\ drawn = <<>>
    /\ args = DefaultArgs
    /\ roi_x = 0 /\ roi_y = 0 /\ roi_w = 0 /\ roi_h = 0
    /\ confidence = 0
    /\ warned = FALSE
    /\ \E ps \in LayoutSizes : panorama = Image(ps[1], ps[2])
    /\ \E zs \in LayoutSizes : zoom_img = Image(zs[1], zs[2])
    /\ margin = 0 /\ canvas_w = 0 /\ canvas_h = 0
    /\ pano_pos = <<0, 0>> /\ zoom_pos = <<0, 0>>
    /\ canvas = <<>> /\ saved = <<>> /\ result = <<>>

layout_any ==
    \E direction \in Directions : \E pad \in LayoutPaddings :
        \E t \in LayoutThicknesses : compute_layout(direction, pad, t)

NextLayout ==
    \/ layout_any
    \/ fig_canvas

SpecLayout == InitLayout /\ [][NextLayout]_vars


\* the scale bars of lines 477-517 on their own: one config of any length,
\* resolution, target, corner and style, on a canvas laid out by default
LengthsUm == {-3, 0, 1, 2, 3, 100, MmFrom - 1, MmFrom, 1500, MaxLengthUm}
Ppus == 1..MaxPpu
ScaleBarConfigs ==
    {[ScaleBar(e, p, c, l, r, st) EXCEPT !.thickness = t] :
        e \in {TRUE}, p \in {"panorama", "zoom"}, c \in {"left", "right"},
        l \in LengthsUm, r \in Ppus, st \in {"line", "ends", "ticks"},
        t \in {1, MaxThickness}}
    \cup {ScaleBar(FALSE, "panorama", "left", 100, PpuScale, "ends")}
LabelBoxes == {<<MaxTextW, MaxTextH>>, <<1, 1>>}

InitScaleBar ==
    /\ AppIdle
    /\ panorama_file = Unreadable
    /\ zoom_file = Unreadable
    /\ pc = "fig_scale_bars"
    /\ stack = <<>>
    /\ error = ""
    /\ LocIdle
    /\ DashIdle
    /\ args = DefaultArgs
    /\ roi_x = 0 /\ roi_y = 0 /\ roi_w = 0 /\ roi_h = 0
    /\ confidence = 0
    /\ warned = FALSE
    /\ panorama = Image(200, 100)
    /\ zoom_img = Image(80, 80)
    /\ margin = MarginOf(DefaultThickness, DefaultThickness)
    /\ \E direction \in {"right", "bottom"} :
          LET lay == Layout(direction, 200, 100, 80, 80, DefaultPadding,
                            MarginOf(DefaultThickness, DefaultThickness))
          IN  /\ canvas_w = lay.canvas_w
              /\ canvas_h = lay.canvas_h
              /\ pano_pos = lay.pano_pos
              /\ zoom_pos = lay.zoom_pos
    /\ canvas = <<[w |-> canvas_w, h |-> canvas_h]>>
    /\ drawn = <<Paste("panorama", pano_pos, panorama[1]),
                 Paste("zoom", zoom_pos, zoom_img[1])>>
    /\ saved = <<>>
    /\ result = <<>>

scale_bar_any ==
    \E cfg \in ScaleBarConfigs : \E tbox \in LabelBoxes :
        draw_scale_bars(<<cfg>>, tbox)

\* a list of two configs, each with its own target, corner and style
ScaleBarPairs ==
    {<<ScaleBar(TRUE, p1, c1, 100, PpuScale, "ends"),
       ScaleBar(e2, p2, c2, 3, 2, "ticks")>> :
        p1 \in {"panorama", "zoom"}, c1 \in {"left", "right"},
        e2 \in BOOLEAN, p2 \in {"panorama", "zoom"}, c2 \in {"left", "right"}}

scale_bar_list ==
    \E sb \in ScaleBarPairs : \E tbox \in LabelBoxes : draw_scale_bars(sb, tbox)

NextScaleBar ==
    \/ scale_bar_any
    \/ scale_bar_list

SpecScaleBar == InitScaleBar /\ [][NextScaleBar]_vars


\* the watermark of lines 544-553 on its own: any position and measured
\* text box, on canvases laid out for images of several sizes
WatermarkSizes == {<<200, 100>>, <<1, 1>>, <<MinTemplate, MinTemplate + 1>>}
WatermarkPositions == {"bottom-right", "bottom-left", "top-right", "top-left",
                       "center", "elsewhere"}
WatermarkBoxes == {<<0, 0>>, <<MaxTextW, MaxTextH>>, <<4, 2>>,
                   <<MaxWatermarkW, MaxTextH>>}

InitWatermark ==
    /\ AppIdle
    /\ panorama_file = Unreadable
    /\ zoom_file = Unreadable
    /\ pc = "fig_watermark"
    /\ stack = <<>>
    /\ error = ""
    /\ LocIdle
    /\ DashIdle
    /\ args = DefaultArgs
    /\ roi_x = 0 /\ roi_y = 0 /\ roi_w = 0 /\ roi_h = 0
    /\ confidence = 0
    /\ warned = FALSE
    /\ \E ps \in WatermarkSizes : panorama = Image(ps[1], ps[2])
    /\ \E zs \in WatermarkSizes : zoom_img = Image(zs[1], zs[2])
    /\ margin = MarginOf(DefaultThickness, DefaultThickness)
    /\ LET lay == Layout("right", panorama[1].w, panorama[1].h, zoom_img[1].w,
                         zoom_img[1].h, 0,
                         MarginOf(DefaultThickness, DefaultThickness))
       IN  /\ canvas_w = lay.canvas_w
           /\ canvas_h = lay.canvas_h
           /\ pano_pos = lay.pano_pos
           /\ zoom_pos = lay.zoom_pos
    /\ canvas = <<[w |-> canvas_w, h |-> canvas_h]>>
    /\ drawn = <<Paste("panorama", pano_pos, panorama[1]),
                 Paste("zoom", zoom_pos, zoom_img[1])>>
    /\ saved = <<>>
    /\ result = <<>>

watermark_any ==
    \E position \in WatermarkPositions :
        apply_watermark(Watermark(TRUE, "Leo", position), WatermarkBoxes)

NextWatermark == watermark_any

SpecWatermark == InitWatermark /\ [][NextWatermark]_vars

\* a HistoryManager on its own: push, undo, redo and clear in any order
HistoryLimits == 1..MaxHistory
HistoryStates == {Settings(0, 0, <<>>), Settings(2, -1, <<>>)}

\* the rest of the program while a class of the GUI runs on its own
CoreIdle ==
    /\ panorama_file = Unreadable
    /\ zoom_file = Unreadable
    /\ stack = <<>>
    /\ error = ""
    /\ LocIdle
    /\ DashIdle
    /\ drawn = <<>>
    /\ FigIdle

InitHistory ==
    /\ BatchIdle
    /\ CoreIdle
    /\ pc = "HistoryManager"
    /\ history = <<>>
    /\ current_index = -1
    /\ max_history \in HistoryLimits
    /\ returned = <<>>
    /\ hlog = <<>>
    /\ GuiIdle
    /\ DebIdle

history_push ==
    /\ pc = "HistoryManager"
    /\ \E state \in HistoryStates :
          /\ HistoryManager_push(state)
          /\ hlog' = Logged("push", <<state>>)
    /\ UNCHANGED <<coreVars, guiVars, debVars>>

history_undo ==
    /\ pc = "HistoryManager"
    /\ HistoryManager_undo
    /\ hlog' = Logged("undo", <<>>)
    /\ UNCHANGED <<coreVars, guiVars, debVars>>

history_redo ==
    /\ pc = "HistoryManager"
    /\ HistoryManager_redo
    /\ hlog' = Logged("redo", <<>>)
    /\ UNCHANGED <<coreVars, guiVars, debVars>>

history_clear ==
    /\ pc = "HistoryManager"
    /\ HistoryManager_clear
    /\ hlog' = Logged("clear", <<>>)
    /\ UNCHANGED <<coreVars, guiVars, debVars>>

NextHistory ==
    \/ history_push
    \/ history_undo
    \/ history_redo
    \/ history_clear

SpecHistory == InitHistory /\ [][NextHistory]_vars

\* a PreviewDebouncer on its own: trigger and cancel in any order, while
\* time passes and the timers that are due fire
InitDebounce ==
    /\ BatchIdle
    /\ CoreIdle
    /\ pc = "PreviewDebouncer"
    /\ HistIdle
    /\ GuiIdle
    /\ DebIdle

debounce_trigger ==
    /\ pc = "PreviewDebouncer"
    /\ PreviewDebouncer_trigger
    /\ UNCHANGED <<coreVars, histVars, guiVars>>

debounce_execute ==
    /\ pc = "PreviewDebouncer"
    /\ \E t \in timers : PreviewDebouncer_execute(t)
    /\ UNCHANGED <<coreVars, histVars, guiVars>>

debounce_cancel ==
    /\ pc = "PreviewDebouncer"
    /\ PreviewDebouncer_cancel
    /\ UNCHANGED <<coreVars, histVars, guiVars>>

debounce_tick ==
    /\ pc = "PreviewDebouncer"
    /\ tick
    /\ UNCHANGED <<coreVars, histVars, guiVars>>

NextDebounce ==
    \/ debounce_trigger
    \/ debounce_execute
    \/ debounce_cancel
    \/ debounce_tick

\* Tk's main loop keeps running: the clock advances and a timer that is due
\* fires
SpecDebounce ==
    /\ InitDebounce
    /\ [][NextDebounce]_vars
    /\ WF_vars(debounce_tick)
    /\ WF_vars(debounce_execute)

\* the GUI: two images are chosen and laid out (or none is), the history is
\* that of ROIZoomGUI.__init__, and the handlers run in any order
GuiSizes == {<<<<MaxLayoutDim, MinTemplate>>, <<MinTemplate, MinTemplate + 1>>>>,
             <<<<MinTemplate, MaxLayoutDim>>, <<MinTemplate, MinTemplate>>>>}
PreviewScales == {50, PctScale}
RoiSpinValues == {0, 2}
ClickPoints == {<<0, 0>>, <<31, 12>>}
ClickTools == {"arrow"}
ClickTargets == {"panorama", "zoom"}

InitGui ==
    /\ BatchIdle
    /\ panorama_file = Unreadable
    /\ zoom_file = Unreadable
    /\ pc = "mainloop"
    /\ stack = <<>>
    /\ error = ""
    /\ LocIdle
    /\ DashIdle
    /\ args = DefaultArgs
    /\ roi_x = 0 /\ roi_y = 0 /\ roi_w = 0 /\ roi_h = 0
    /\ confidence = 0
    /\ warned = FALSE
    /\ \/ panorama = <<>> /\ zoom_img = <<>>
       \/ \E sz \in GuiSizes :
             /\ panorama = Image(sz[1][1], sz[1][2])
             /\ zoom_img = Image(sz[2][1], sz[2][2])
    /\ margin = MarginOf(DefaultThickness, DefaultThickness)
    /\ IF panorama = <<>>
       THEN /\ canvas_w = 0 /\ canvas_h = 0
            /\ pano_pos = <<0, 0>> /\ zoom_pos = <<0, 0>>
            /\ canvas = <<>>
       ELSE LET lay == Layout("right", panorama[1].w, panorama[1].h,
                              zoom_img[1].w, zoom_img[1].h, DefaultPadding,
                              MarginOf(DefaultThickness, DefaultThickness))
            IN  /\ canvas_w = lay.canvas_w
                /\ canvas_h = lay.canvas_h
                /\ pano_pos = lay.pano_pos
                /\ zoom_pos = lay.zoom_pos
                /\ canvas = <<[w |-> canvas_w, h |-> canvas_h]>>
    /\ drawn = <<>>
    /\ saved = <<>>
    /\ result = <<>>
    /\ HistIdle
    /\ settings = Settings(0, 0, <<>>)
    /\ unmodified = <<>>
    /\ event = Event("", <<>>)
    /\ status = undo_count
    /\ adding_annotation = FALSE
    /\ preview_scale \in PreviewScales
    /\ DebIdle

NextGui ==
    \/ \E v \in RoiSpinValues : roi_x_spin(v)
    \/ reset_roi_offset
    \/ start_adding_annotation
    \/ \E c \in ClickPoints : \E tool \in ClickTools :
          \E target \in ClickTargets : on_canvas_click(c, tool, target)
    \/ \E idx \in 1..MaxAfter : delete_selected_annotation(idx)
    \/ ROIZoomGUI_undo
    \/ ROIZoomGUI_redo
    \/ debouncer_execute
    \/ gui_tick

SpecGui == InitGui /\ [][NextGui]_vars

\* the batch dialog: the list holds up to MaxPairs pairs, of which the even
\* ones fail in create_zoom_figure; the handlers of the dialog run in any
\* order while the worker thread advances
BatchPair(i) == [name |-> i, ok |-> i % 2 = 1]
BatchLists == {[i \in 1..n |-> BatchPair(i)] : n \in 0..MaxPairs}

InitBatch ==
    /\ CoreIdle
    /\ pc = "BatchProcessDialog"
    /\ HistIdle
    /\ GuiIdle
    /\ DebIdle
    /\ file_pairs \in BatchLists
    /\ tree = [i \in 1..Len(file_pairs) |-> file_pairs[i].name]
    /\ processing = FALSE
    /\ start_btn = "normal"
    /\ cancel_btn = "disabled"
    /\ worker = "none"
    /\ iterated = <<>>
    /\ wi = 0
    /\ aliased = FALSE
    /\ pair = <<>>
    /\ success = 0
    /\ failed = 0
    /\ batch_list = <<>>
    /\ started = <<>>

NextBatch ==
    \/ \E idx \in 1..MaxPairs : remove_selected(idx)
    \/ clear_list
    \/ start_processing
    \/ cancel_processing
    \/ process_files_begin
    \/ process_files_for
    \/ process_files_if
    \/ process_files_item
    \/ process_files_count
    \/ process_files_finish

SpecBatch == InitBatch /\ [][NextBatch]_vars

\* draw_dashed_line called with the dash and gap lengths create_zoom_figure
\* passes on, which it takes from its caller unchecked: any integers.  A
\* march that does not end is followed for MaxSegments dashes.
AcceptedLines == {<<0, 0, 0, 0>>, <<0, 0, 30, 40>>, <<20, 5, 0, 5>>}
AcceptedDashes == {-5, 0, 5, DefaultDash}
AcceptedGaps == {-DefaultDash, -5, 0, DefaultGap}

InitDashAccepted ==
    /\ AppIdle
    /\ panorama_file = Unreadable
    /\ zoom_file = Unreadable
    /\ pc = "draw_dashed_line"
    /\ stack = <<>>
    /\ error = ""
    /\ LocIdle
    /\ \E line \in AcceptedLines : \E dash \in AcceptedDashes :
          \E gap \in AcceptedGaps : dl = DashArgs(line, dash, gap)
    /\ current_pos = 0
    /\ drawing = TRUE
    /\ drawn = <<>>
    /\ FigIdle

NextDashAccepted ==
    \/ draw_dashed_line_enter
    \/ Len(drawn) < MaxSegments /\ draw_dashed_line_dash
    \/ draw_dashed_line_gap
    \/ draw_dashed_line_return

SpecDashAccepted == InitDashAccepted /\ [][NextDashAccepted]_vars

---------------------------------------------------------------------------
(* Properties of find_roi_position *)

BothReadable == panorama_file # Unreadable /\ zoom_file # Unreadable

\* the resized template of the i-th scale, int(zoom_w * s) x int(zoom_h * s)
TemplateW(i) == ScaledDim(zoom_file[1].w, scales[i])
TemplateH(i) == ScaledDim(zoom_file[1].h, scales[i])

\* the i-th scale survives the size filter: strictly inside the panorama
\* and no side under 10 px
Survives(i) ==
    /\ TemplateW(i) < panorama_file[1].w
    /\ TemplateH(i) < panorama_file[1].h
    /\ ~(TemplateW(i) < MinTemplate)
    /\ ~(TemplateH(i) < MinTemplate)

ScaleIndexes == 1..Len(scales)
Survivors == {i \in ScaleIndexes : Survives(i)}

ObsVals == {obs[k].val : k \in DOMAIN obs}
MaxOf(S) == CHOOSE m \in S : \A v \in S : v <= m

\* C1: when no scale of the fixed list survives the size filter,
\* find_roi_position never returns a match (roi stays unset, the function
\* is never at its return point) and, once the scan is over, the
\* exception it ends with is the no-match error.
C1_NoSurvivorNoMatch ==
    (BothReadable /\ Survivors = {}) =>
        /\ roi = <<>>
        /\ best_match = <<>>
        /\ pc # "returned"
        /\ pc = "raised" => error = "no_match"

\* C1 witness: a 40 x 40 zoom against a 10 x 10 panorama (the template is
\* as large as the panorama at 0.25 and under 10 px below it) has ended in
\* the no-match error.
C1_Witness ==
    /\ pc = "raised" /\ error = "no_match"
    /\ BothReadable /\ Survivors = {}
    /\ zoom_file = Image(MaxZoomDim, MaxZoomDim)
    /\ panorama_file = Image(MinTemplate, MinTemplate)
    /\ si = Len(scales) + 1

\* C3: the returned match is that of a surviving scale with the highest
\* confidence: every surviving scale was observed, the returned confidence
\* is the maximum of the observed peak values, and x, y, w, h are the peak
\* location and template size observed at one scale whose peak is that
\* maximum.
C3_ReturnedIsBestScale ==
    roi # <<>> =>
        /\ {obs[k].scale : k \in DOMAIN obs} = {scales[i] : i \in Survivors}
        /\ roi[1].confidence = MaxOf(ObsVals)
        /\ \E k \in DOMAIN obs :
              /\ obs[k].val = MaxOf(ObsVals)
              /\ obs[k].x = roi[1].x /\ obs[k].y = roi[1].y
              /\ obs[k].w = roi[1].w /\ obs[k].h = roi[1].h
              /\ obs[k].w = ScaledDim(zoom_file[1].w, obs[k].scale)
              /\ obs[k].h = ScaledDim(zoom_file[1].h, obs[k].scale)

\* C3 witness: a match was returned after at least three scales were
\* matched, with a later, smaller scale beating the first one and with two
\* scales of different location.
C3_Witness ==
    /\ roi # <<>>
    /\ Len(obs) >= 3
    /\ obs[1].val < roi[1].confidence
    /\ roi[1].w # obs[1].w
    /\ \E j, k \in DOMAIN obs : obs[j].x # obs[k].x

\* the scales matched before the loop index, in the order matched
MatchedScales == [k \in DOMAIN obs |-> obs[k].scale]

\* C4 (state part): among the scales the loop has passed, exactly those
\* whose resized template strictly fits the panorama and has no dimension
\* under 10 px were matched, once each and in the order of the list.
C4_MatchedIffFitsInv ==
    (BothReadable /\ si >= 1) =>
        /\ \A i \in ScaleIndexes :
              i < si =>
                 ((\E k \in DOMAIN obs : obs[k].scale = scales[i])
                     <=> Survives(i))
        /\ \A k \in DOMAIN obs : \E i \in ScaleIndexes :
              i < si /\ scales[i] = obs[k].scale
        /\ \A j, k \in DOMAIN obs : j < k => obs[j].scale > obs[k].scale

\* C4 (step part): a step that passes a scale which does not survive
\* leaves best_match, best_confidence and the matches made unchanged.
C4_SkipLeavesResult ==
    (pc = "scan" /\ si' = si + 1 /\ si \in ScaleIndexes /\ ~Survives(si)) =>
        UNCHANGED <<best_match, best_confidence, obs, roi, error>>

\* C4: each scale of the fixed descending list is matched if and only if
\* its resized template strictly fits the panorama and neither resized
\* dimension is below 10 px; every other scale is skipped without
\* affecting the result.
C4_MatchedIffFits ==
    [](C4_MatchedIffFitsInv) /\ [][C4_SkipLeavesResult]_vars

\* C4 witness: the scan is over, with scales skipped for not fitting (the
\* first), skipped for being under 10 px (the last) and matched in between.
C4_Witness ==
    /\ pc = "scan" /\ si = Len(scales) + 1
    /\ ~Survives(1) /\ TemplateW(1) >= panorama_file[1].w
    /\ ~Survives(Len(scales)) /\ TemplateW(Len(scales)) < MinTemplate
    /\ Len(obs) >= 2

---------------------------------------------------------------------------
(* Properties of draw_dashed_line *)

\* the horizontal line of length 100 with the default dash and gap
HorizontalCase == DashArgs(<<0, 0, 100, 0>>, DefaultDash, DefaultGap)

\* the length of a drawn segment of the horizontal case, whose line has
\* the integer length x2 - x1
HorizontalLen(s) == IF s.clipped THEN (s.x2 - s.x1) - s.from ELSE s.to - s.from

RECURSIVE SumHorizontalLen(_)
SumHorizontalLen(segs) ==
    IF segs = <<>> THEN 0
    ELSE HorizontalLen(Head(segs)) + SumHorizontalLen(Tail(segs))

\* C8 as stated: for the horizontal line of length 100 with dash_length 15
\* and gap_length 10 the drawn lengths sum to between 85 and 100, and no
\* drawn segment is longer than dash_length.
C8_SumBetween85And100 ==
    (pc = "returned" /\ dl = HorizontalCase) =>
        /\ SumHorizontalLen(drawn) >= 100 - DefaultDash
        /\ SumHorizontalLen(drawn) <= 100
        /\ \A k \in DOMAIN drawn : HorizontalLen(drawn[k]) <= DefaultDash

\* C8 as amended: for that line the drawn lengths sum to exactly 60, four
\* whole dashes of 15 px beginning at 0, 25, 50 and 75 (the 10 px gaps are
\* not drawn), and no drawn segment is longer than dash_length.
C8_SumIs60 ==
    (pc = "returned" /\ dl = HorizontalCase) =>
        /\ SumHorizontalLen(drawn) = 60
        /\ [k \in DOMAIN drawn |-> drawn[k].from] = <<0, 25, 50, 75>>
        /\ \A k \in DOMAIN drawn : HorizontalLen(drawn[k]) <= DefaultDash

\* C8 witness: the horizontal case has been drawn to its end.
C8_Witness ==
    /\ pc = "returned" /\ dl = HorizontalCase
    /\ Len(drawn) = 4
    /\ current_pos = 100

\* C9: the k-th drawn segment (k from 0) begins at distance
\* k * (dash_length + gap_length) of the start, before the end point; it
\* is dash_length long when that fits in the rest of the line and ends at
\* the end point otherwise, so it never passes the end point; dashes and
\* gaps alternate from a dash at the start; and the march has stopped
\* exactly when the distance traversed reached the line length, every
\* earlier position having been short of it.
C9_DashesAlternateAndClip ==
    (dl # <<>> /\ pc \in {"march", "returned"}) =>
        LET a == dl[1]
            period == a.dash_length + a.gap_length
            L2 == (a.x2 - a.x1) * (a.x2 - a.x1) + (a.y2 - a.y1) * (a.y2 - a.y1)
            n == Len(drawn)
            before == IF drawing THEN current_pos - a.gap_length
                      ELSE current_pos - a.dash_length
        IN  /\ \A k \in DOMAIN drawn :
                 LET s == drawn[k]
                 IN  /\ s.from = (k - 1) * period
                     /\ s.from * s.from < L2
                     /\ IF s.clipped
                        THEN (s.from + a.dash_length) * (s.from + a.dash_length) > L2
                        ELSE /\ s.to = s.from + a.dash_length
                             /\ s.to * s.to <= L2
            /\ current_pos = n * a.dash_length
                               + (IF drawing THEN n ELSE n - 1) * a.gap_length
            /\ drawing => (n = 0 <=> current_pos = 0)
            /\ n > 0 => before * before < L2
            /\ pc = "returned" => current_pos * current_pos >= L2
            /\ (pc = "returned" /\ L2 > 0) => n > 0

\* C9 witness: a slanted line has been marched to its end in at least
\* three dashes, the last of them clipped at the end point.
C9_Witness ==
    /\ pc = "returned" /\ dl # <<>>
    /\ dl[1].x1 # dl[1].x2 /\ dl[1].y1 # dl[1].y2
    /\ Len(drawn) >= 3
    /\ drawn[Len(drawn)].clipped
    /\ ~drawn[1].clipped


---------------------------------------------------------------------------
(* Properties of the layout *)

LaidOut == pc \in {"fig_canvas", "fig_borders"}
Larger(a, b) == IF a > b THEN a ELSE b
PanoW == panorama[1].w
PanoH == panorama[1].h
ZoomW == zoom_img[1].w
ZoomH == zoom_img[1].h
CrossY ==
    /\ canvas_h = margin + Larger(PanoH, ZoomH) + margin
    /\ pano_pos[2] = margin + (Larger(PanoH, ZoomH) - PanoH) \div 2
    /\ zoom_pos[2] = margin + (Larger(PanoH, ZoomH) - ZoomH) \div 2
CrossX ==
    /\ canvas_w = margin + Larger(PanoW, ZoomW) + margin
    /\ pano_pos[1] = margin + (Larger(PanoW, ZoomW) - PanoW) \div 2
    /\ zoom_pos[1] = margin + (Larger(PanoW, ZoomW) - ZoomW) \div 2
SpecExample ==
    /\ args.zoom_position = "right"
    /\ PanoW = 200 /\ PanoH = 100 /\ ZoomW = 80 /\ ZoomH = 80
    /\ args.padding = 20 /\ margin = 8

\* C6: in each of the four directions the two images are laid on the
\* primary axis with exactly `padding` pixels between their adjacent edges,
\* one margin before the first and one after the second, and each is offset
\* on the cross axis by margin + (max_extent - own_extent) // 2; right puts
\* the panorama left of the zoom, left mirrors it, bottom and top transpose
\* them; right, (200,100), (80,80), padding 20, margin 8 gives canvas
\* (316,116), pano_pos (8,8), zoom_pos (228,18)
C6_LayoutByDirection ==
    LaidOut =>
        /\ args.zoom_position = "right" =>
              /\ pano_pos[1] = margin
              /\ zoom_pos[1] - (pano_pos[1] + PanoW) = args.padding
              /\ canvas_w = zoom_pos[1] + ZoomW + margin
              /\ canvas_w = margin + PanoW + args.padding + ZoomW + margin
              /\ CrossY
        /\ args.zoom_position = "left" =>
              /\ zoom_pos[1] = margin
              /\ pano_pos[1] - (zoom_pos[1] + ZoomW) = args.padding
              /\ canvas_w = pano_pos[1] + PanoW + margin
              /\ CrossY
        /\ args.zoom_position = "bottom" =>
              /\ pano_pos[2] = margin
              /\ zoom_pos[2] - (pano_pos[2] + PanoH) = args.padding
              /\ canvas_h = zoom_pos[2] + ZoomH + margin
              /\ CrossX
        /\ args.zoom_position = "top" =>
              /\ zoom_pos[2] = margin
              /\ pano_pos[2] - (zoom_pos[2] + ZoomH) = args.padding
              /\ canvas_h = pano_pos[2] + PanoH + margin
              /\ CrossX
        /\ SpecExample =>
              /\ canvas_w = 316 /\ canvas_h = 116
              /\ pano_pos = <<8, 8>>
              /\ zoom_pos = <<228, 18>>

C6_Witness ==
    /\ pc = "fig_borders"
    /\ SpecExample
    /\ canvas = <<[w |-> 316, h |-> 116]>>
    /\ drawn[2].x = 228 /\ drawn[2].y = 18

Within(pos, w, h) ==
    /\ pos[1] >= margin /\ pos[1] + w <= canvas_w - margin
    /\ pos[2] >= margin /\ pos[2] + h <= canvas_h - margin
Disjoint ==
    \/ pano_pos[1] + PanoW <= zoom_pos[1]
    \/ zoom_pos[1] + ZoomW <= pano_pos[1]
    \/ pano_pos[2] + PanoH <= zoom_pos[2]
    \/ zoom_pos[2] + ZoomH <= pano_pos[2]
FitsAndDisjoint ==
    /\ Within(pano_pos, PanoW, PanoH)
    /\ Within(zoom_pos, ZoomW, ZoomH)
    /\ Disjoint

\* C7 as stated: for any sizes, direction, padding and thicknesses the
\* function accepts, both images lie within the margin box of the canvas
\* and do not overlap
C7_AlwaysFitsAndDisjoint == LaidOut => FitsAndDisjoint

\* C7: both images lie within [margin, canvas_w - margin] x
\* [margin, canvas_h - margin] and do not overlap exactly when the padding
\* is not negative; a negative padding is accepted and then the images
\* overlap or leave the margin box
C7_FitsAndDisjointIffPadding ==
    LaidOut => (FitsAndDisjoint <=> args.padding >= 0)

C7_Witness ==
    /\ pc = "fig_borders"
    /\ args.padding = MaxPadding
    /\ args.zoom_position = "top"
    /\ PanoW < ZoomW
    /\ FitsAndDisjoint
    /\ drawn[1].y = margin + ZoomH + MaxPadding

---------------------------------------------------------------------------
(* Properties of the scale bars *)

BarsDrawn == pc = "fig_annotations" /\ Len(args.scale_bar) = 1
MainBars ==
    {i \in 1..Len(drawn) : drawn[i].op = "bar_line" /\ drawn[i].y1 = drawn[i].y2}
\* four times the product length_um * pixels_per_um
Product4 == args.scale_bar[1].length_um * args.scale_bar[1].pixels_per_um

\* C10 as stated: the bar is round(length_um * pixels_per_um) pixels long,
\* a fractional part of one half or more rounding up
C10_LengthRounded ==
    BarsDrawn =>
        \A i \in MainBars :
            LET n == drawn[i].x2 - drawn[i].x1
            IN  /\ 4 * n - 2 <= Product4
                /\ Product4 < 4 * n + 2

\* C10: the bar is int(length_um * pixels_per_um) pixels long, the product
\* truncated toward zero: 100 um at 2.0 px/um gives 200 px, 3 um at 0.5
\* px/um gives 1 px
C10_LengthTruncated ==
    BarsDrawn =>
        /\ args.scale_bar[1].enabled => Cardinality(MainBars) = 1
        /\ \A i \in MainBars :
              LET n == drawn[i].x2 - drawn[i].x1
              IN  /\ Product4 >= 0 => 4 * n <= Product4 /\ Product4 < 4 * n + 4
                  /\ Product4 < 0 => 4 * n - 4 < Product4 /\ Product4 <= 4 * n
                  /\ (args.scale_bar[1].length_um = 100
                      /\ args.scale_bar[1].pixels_per_um = 8) => n = 200
                  /\ (args.scale_bar[1].length_um = 3
                      /\ args.scale_bar[1].pixels_per_um = 2) => n = 1

C10_Witness ==
    /\ BarsDrawn
    /\ args.scale_bar[1].length_um = 3
    /\ args.scale_bar[1].pixels_per_um = 2
    /\ \E i \in MainBars : drawn[i].x2 - drawn[i].x1 = 1

---------------------------------------------------------------------------
(* Properties of create_zoom_figure *)

\* C2: whenever a scale survives the size filter, a best confidence in
\* [-1, 0.5) is not fatal: find_roi_position does not end in the no-match
\* error and a figure finished with such a confidence has only warned and
\* carries the match in its metadata
C2_LowConfidenceNonFatal ==
    (BothReadable /\ Survivors # {}) =>
        /\ error # "no_match"
        /\ pc # "raised"
        /\ (pc = "done" /\ confidence < WarnBelow) =>
              /\ warned
              /\ result # <<>>
              /\ result[1].confidence = confidence

InvalidScaleBars ==
    {k \in DOMAIN args.scale_bar :
        args.scale_bar[k].enabled /\ args.scale_bar[k].length_um <= 0}
InvalidWatermark ==
    /\ args.watermark # <<>>
    /\ args.watermark[1].enabled
    /\ args.watermark[1].text = ""
InvalidSpec == InvalidScaleBars # {} \/ InvalidWatermark

\* C5 as stated: with an enabled scale bar of non-positive length or an
\* enabled watermark of empty text the call is rejected before any drawing:
\* no canvas is produced, saved or returned
C5_InvalidSpecRejected ==
    InvalidSpec =>
        /\ canvas = <<>>
        /\ drawn = <<>>
        /\ saved = <<>>
        /\ result = <<>>
        /\ pc # "done"

\* C5: create_zoom_figure validates neither: the only errors are those of
\* the locator, an enabled scale bar of non-positive length is drawn with a
\* bar that is not longer than zero, an enabled watermark of empty text is
\* composited, and the canvas is saved and returned all the same
C5_InvalidSpecRendered ==
    /\ error \in {"", "read_panorama", "read_zoom", "no_match"}
    /\ (pc = "done" /\ InvalidSpec) =>
          /\ canvas # <<>>
          /\ saved = <<drawn>>
          /\ result # <<>>
          /\ result[1].canvas = drawn
          /\ \A k \in InvalidScaleBars :
                \E i \in DOMAIN drawn :
                    /\ drawn[i].op = "bar_line"
                    /\ drawn[i].y1 = drawn[i].y2
                    /\ drawn[i].width = args.scale_bar[k].thickness
                    /\ drawn[i].x2 - drawn[i].x1 <= 0
                    /\ PpuScale * (drawn[i].x2 - drawn[i].x1)
                         = args.scale_bar[k].length_um
                           * args.scale_bar[k].pixels_per_um
          /\ InvalidWatermark =>
                \E i \in DOMAIN drawn :
                    drawn[i].op = "watermark" /\ drawn[i].text = ""

C5_Witness ==
    /\ pc = "done"
    /\ InvalidScaleBars # {}
    /\ InvalidWatermark
    /\ saved = <<drawn>>
    /\ drawn[Len(drawn)].op = "watermark"

\* the step of create_zoom_figure a program point belongs to
Stage(p) ==
    CASE p = "create_zoom_figure" -> 0
      [] p \in {"find_roi_position", "scan"} -> 1
      [] p = "fig_offset" -> 2
      [] p = "fig_load" -> 3
      [] p = "fig_layout" -> 4
      [] p = "fig_canvas" -> 5
      [] p = "fig_borders" -> 6
      [] p \in {"fig_guide1", "fig_guide2", "draw_dashed_line", "march"} -> 7
      [] p = "fig_scale_bars" -> 8
      [] p = "fig_annotations" -> 9
      [] p = "fig_watermark" -> 10
      [] p = "fig_save" -> 11
      [] p = "fig_return" -> 12
      [] p = "done" -> 13
      [] OTHER -> 14

\* the step that draws an operation of the canvas
Rank(o) ==
    CASE o.op = "paste" -> 5
      [] o.op = "rectangle" -> 6
      [] o.op = "line" -> 7
      [] o.op \in {"bar_line", "bar_text"} -> 8
      [] o.op \in {"ann_line", "ann_polygon", "ann_text", "ann_ellipse"} -> 9
      [] OTHER -> 10

C11_Layered ==
    pc # "raised" =>
        /\ \A i \in DOMAIN drawn :
              /\ Rank(drawn[i]) <= Stage(pc)
              /\ Rank(drawn[i]) = Stage(pc) => Stage(pc) = 7
        /\ \A i, j \in DOMAIN drawn : i < j => Rank(drawn[i]) <= Rank(drawn[j])
        /\ Stage(pc) >= 2 => roi # <<>>
        /\ Stage(pc) >= 3 => roi_x = roi[1].x + args.roi_offset[1]
        /\ Stage(pc) >= 4 => panorama # <<>> /\ zoom_img # <<>>
        /\ Stage(pc) >= 6 =>
              /\ canvas = <<[w |-> canvas_w, h |-> canvas_h]>>
              /\ Len(drawn) >= 2
              /\ drawn[1] = Paste("panorama", pano_pos, panorama[1])
              /\ drawn[2] = Paste("zoom", zoom_pos, zoom_img[1])
        /\ Stage(pc) >= 7 =>
              LET tz == args.zoom_box_thickness
                  tb == args.box_thickness
              IN  /\ Len(drawn) >= 2 + tz + tb + tz
                  /\ drawn[3].op = "rectangle"
                  /\ <<drawn[3].x1, drawn[3].y1>> = pano_pos
                  /\ drawn[2 + tz + 1].color = "box_color"
                  /\ <<drawn[2 + tz + tb + 1].x1, drawn[2 + tz + tb + 1].y1>>
                       = zoom_pos
                  /\ drawn[2 + tz + tb + 1].color = "zoom_box_color"
        /\ Stage(pc) >= 12 => saved = <<drawn>>
        /\ pc = "done" => result # <<>> /\ result[1].canvas = drawn

C11_StepOrder ==
    (pc' # "raised" /\ pc' # pc) =>
        /\ Stage(pc') \in {Stage(pc), Stage(pc) + 1}
        /\ Stage(pc) # 7 => Len(drawn') >= Len(drawn)
        /\ \A i \in DOMAIN drawn : drawn'[i] = drawn[i]

\* C11: on every call that succeeds the steps run in the fixed order locate,
\* offset, load, layout, canvas and pastes, panorama border then ROI box
\* then zoom border, guide lines, scale bars, annotations, watermark,
\* return: no step is skipped or repeated, what is drawn is only appended
\* to, and the operations on the canvas are in the order of their steps
C11_FixedOrder == [](C11_Layered) /\ [][C11_StepOrder]_vars

C11_Witness ==
    /\ pc = "done"
    /\ \E i, j, k \in DOMAIN drawn :
          /\ i < j /\ j < k
          /\ drawn[i].op = "bar_line"
          /\ drawn[j].op = "ann_line"
          /\ drawn[k].op = "watermark"
    /\ \E i \in DOMAIN drawn : drawn[i].op = "line" /\ ~drawn[i].clipped

---------------------------------------------------------------------------
(* Properties of the guide lines and the borders *)

RoiLeft == pano_pos[1] + roi_x
RoiTop == pano_pos[2] + roi_y
RoiRight == RoiLeft + roi_w
RoiBottom == RoiTop + roi_h
ZoomLeft == zoom_pos[1]
ZoomTop == zoom_pos[2]
ZoomRight == zoom_pos[1] + ZoomW
ZoomBottom == zoom_pos[2] + ZoomH

\* the two corner pairs of each direction
FirstPair ==
    CASE args.zoom_position = "right" -> <<RoiRight, RoiTop, ZoomLeft, ZoomTop>>
      [] args.zoom_position = "left" -> <<RoiLeft, RoiTop, ZoomRight, ZoomTop>>
      [] args.zoom_position = "bottom" ->
            <<RoiLeft, RoiBottom, ZoomLeft, ZoomTop>>
      [] args.zoom_position = "top" -> <<RoiLeft, RoiTop, ZoomLeft, ZoomBottom>>
SecondPair ==
    CASE args.zoom_position = "right" ->
            <<RoiRight, RoiBottom, ZoomLeft, ZoomBottom>>
      [] args.zoom_position = "left" ->
            <<RoiLeft, RoiBottom, ZoomRight, ZoomBottom>>
      [] args.zoom_position = "bottom" ->
            <<RoiRight, RoiBottom, ZoomRight, ZoomTop>>
      [] args.zoom_position = "top" ->
            <<RoiRight, RoiTop, ZoomRight, ZoomBottom>>

LineOps == {i \in DOMAIN drawn : drawn[i].op = "line"}
LineOf(o) == <<o.x1, o.y1, o.x2, o.y2>>
NonDegenerate(l) == l[1] # l[3] \/ l[2] # l[4]
GuidesDrawn == pc # "raised" /\ Stage(pc) >= 8

\* C12: a finished figure carries exactly two guide lines, the first from
\* the first corner pair of its direction and the second from the second
\* (right: ROI right-top to zoom left-top, ROI right-bottom to zoom
\* left-bottom; left: ROI left-top to zoom right-top, ROI left-bottom to
\* zoom right-bottom; bottom: ROI bottom-left to zoom top-left, ROI
\* bottom-right to zoom top-right; top: ROI top-left to zoom bottom-left,
\* ROI top-right to zoom bottom-right): solid, they are the only two
\* strokes; dashed, every dash lies on one of the two, the dashes of the
\* first before those of the second, each line of non-zero length
\* beginning with a dash at its start
C12_TwoGuideLines ==
    GuidesDrawn =>
        /\ \A i \in LineOps : LineOf(drawn[i]) \in {FirstPair, SecondPair}
        /\ args.line_style = "solid" =>
              /\ Cardinality(LineOps) = 2
              /\ \E i \in LineOps :
                    /\ i + 1 \in LineOps
                    /\ LineOf(drawn[i]) = FirstPair
                    /\ LineOf(drawn[i + 1]) = SecondPair
                    /\ drawn[i].clipped /\ drawn[i].from = 0
                    /\ drawn[i + 1].clipped /\ drawn[i + 1].from = 0
        /\ args.line_style = "dashed" =>
              /\ NonDegenerate(FirstPair) =>
                    \E i \in LineOps :
                        LineOf(drawn[i]) = FirstPair /\ drawn[i].from = 0
              /\ NonDegenerate(SecondPair) =>
                    \E i \in LineOps :
                        LineOf(drawn[i]) = SecondPair /\ drawn[i].from = 0
              /\ FirstPair # SecondPair =>
                    \A i, j \in LineOps :
                        (LineOf(drawn[i]) = FirstPair
                         /\ LineOf(drawn[j]) = SecondPair) => i < j
              /\ dl = DashArgs(SecondPair, args.dash_length, args.gap_length)

C12_Witness ==
    /\ pc = "fig_scale_bars"
    /\ args.zoom_position = "bottom"
    /\ args.line_style = "solid"
    /\ args.roi_offset # <<0, 0>>
    /\ Cardinality(LineOps) = 2
    /\ NonDegenerate(FirstPair) /\ NonDegenerate(SecondPair)
    /\ FirstPair # SecondPair

RectOps == {i \in DOMAIN drawn : drawn[i].op = "rectangle"}
\* the operation is the outline of the box (l, t, r, b) grown by i pixels on
\* every side
Outline(o, l, t, r, b, i, color) ==
    /\ o.op = "rectangle"
    /\ o.x1 = l - i /\ o.y1 = t - i
    /\ o.x2 = r + i /\ o.y2 = b + i
    /\ o.color = color

\* C13: the borders of a figure are nested one-pixel outlines: the
\* panorama border and the zoom border are zoom_box_thickness outlines each
\* and the ROI box box_thickness outlines in box_color, the i-th (from 0)
\* grown by i pixels on all four sides from the image's bounding box, for
\* the ROI box from (pano_pos.x + roi_x, pano_pos.y + roi_y) with size
\* (roi_w, roi_h); there are no other outlines
C13_NestedOutlines ==
    (pc # "raised" /\ Stage(pc) >= 7) =>
        LET tz == args.zoom_box_thickness
            tb == args.box_thickness
        IN  /\ Cardinality(RectOps) = tz + tb + tz
            /\ RectOps = 3..(2 + tz + tb + tz)
            /\ \A i \in 0..(tz - 1) :
                  Outline(drawn[3 + i], pano_pos[1], pano_pos[2],
                          pano_pos[1] + PanoW, pano_pos[2] + PanoH, i,
                          "zoom_box_color")
            /\ \A i \in 0..(tb - 1) :
                  Outline(drawn[3 + tz + i], pano_pos[1] + roi_x,
                          pano_pos[2] + roi_y, pano_pos[1] + roi_x + roi_w,
                          pano_pos[2] + roi_y + roi_h, i, "box_color")
            /\ \A i \in 0..(tz - 1) :
                  Outline(drawn[3 + tz + tb + i], zoom_pos[1], zoom_pos[2],
                          zoom_pos[1] + ZoomW, zoom_pos[2] + ZoomH, i,
                          "zoom_box_color")

C13_Witness ==
    /\ pc = "fig_guide1"
    /\ args.box_thickness = MaxThickness
    /\ args.roi_offset # <<0, 0>>
    /\ roi_x # 0
    /\ Cardinality(RectOps) = MaxThickness + 2
    /\ drawn[5].x1 = pano_pos[1] + roi_x - (MaxThickness - 1)

---------------------------------------------------------------------------
(* Properties of the returned metadata *)

\* the first outline of the ROI box
RoiBoxOps == {i \in DOMAIN drawn : drawn[i].op = "rectangle"
                                   /\ drawn[i].color = "box_color"}
FirstRoiBox == drawn[CHOOSE i \in RoiBoxOps : \A j \in RoiBoxOps : i <= j]

\* C14: the metadata of a finished figure has roi_x, roi_y equal to the
\* located origin plus roi_offset, which is the origin the ROI box is drawn
\* at; roi_w, roi_h and confidence as the locator returned them; pano_pos
\* and zoom_pos equal to the anchors the two images were pasted at
C14_Metadata ==
    pc = "done" =>
        /\ result[1].roi_x = roi[1].x + args.roi_offset[1]
        /\ result[1].roi_y = roi[1].y + args.roi_offset[2]
        /\ FirstRoiBox.x1 = drawn[1].x + result[1].roi_x
        /\ FirstRoiBox.y1 = drawn[1].y + result[1].roi_y
        /\ result[1].roi_w = roi[1].w
        /\ result[1].roi_h = roi[1].h
        /\ FirstRoiBox.x2 - FirstRoiBox.x1 = roi[1].w
        /\ FirstRoiBox.y2 - FirstRoiBox.y1 = roi[1].h
        /\ result[1].confidence = roi[1].confidence
        /\ result[1].confidence = best_confidence
        /\ drawn[1].image = "panorama"
        /\ result[1].pano_pos = <<drawn[1].x, drawn[1].y>>
        /\ drawn[2].image = "zoom"
        /\ result[1].zoom_pos = <<drawn[2].x, drawn[2].y>>

C14_Witness ==
    /\ pc = "done"
    /\ args.roi_offset = <<MaxOffset, -MaxOffset>>
    /\ roi[1].x > 0
    /\ result[1].roi_x = roi[1].x + MaxOffset
    /\ result[1].roi_y = roi[1].y - MaxOffset
    /\ result[1].confidence < WarnBelow

---------------------------------------------------------------------------
(* Properties of the optional steps *)

OpsOf(kinds) == {i \in DOMAIN drawn : drawn[i].op \in kinds}
BarKinds == {"bar_line", "bar_text"}
AnnKinds == {"ann_line", "ann_polygon", "ann_text", "ann_ellipse"}
EnabledBars == {k \in DOMAIN args.scale_bar : args.scale_bar[k].enabled}
NoWatermark == args.watermark = <<>> \/ ~args.watermark[1].enabled

C15_AbsentDrawsNothing ==
    pc # "raised" =>
        /\ Stage(pc) >= 9 =>
              /\ Cardinality(OpsOf({"bar_text"})) = Cardinality(EnabledBars)
              /\ EnabledBars = {} => OpsOf(BarKinds) = {}
        /\ (Stage(pc) >= 10 /\ args.annotations = <<>>) => OpsOf(AnnKinds) = {}
        /\ (Stage(pc) >= 11 /\ NoWatermark) => OpsOf({"watermark"}) = {}
        /\ Stage(pc) >= 6 =>
              /\ roi # <<>>
              /\ canvas # <<>>
              /\ OpsOf({"paste"}) = {1, 2}

C15_AbsentStepIsNoOp ==
    /\ (pc = "fig_scale_bars" /\ pc' = "fig_annotations"
        /\ \A k \in DOMAIN args'.scale_bar : ~args'.scale_bar[k].enabled)
          => drawn' = drawn /\ canvas' = canvas
    /\ (pc = "fig_annotations" /\ pc' = "fig_watermark"
        /\ args'.annotations = <<>>)
          => drawn' = drawn /\ canvas' = canvas
    /\ (pc = "fig_watermark" /\ pc' = "fig_save"
        /\ (args'.watermark = <<>> \/ ~args'.watermark[1].enabled))
          => drawn' = drawn /\ canvas' = canvas

\* C15: an optional step whose argument is absent or disabled changes
\* nothing: no scale_bar, an empty one, or configs that are not enabled
\* draw no bar (and in a list only the enabled configs draw one); no
\* annotations draw nothing; no watermark or one not enabled leaves the
\* canvas as it was; the ROI is always located and the canvas always
\* assembled with both images
C15_OptionalStepsNoOp ==
    [](C15_AbsentDrawsNothing) /\ [][C15_AbsentStepIsNoOp]_vars

C15_Witness ==
    /\ pc = "done"
    /\ Len(args.scale_bar) = 2
    /\ Cardinality(EnabledBars) = 1
    /\ Cardinality(OpsOf({"bar_text"})) = 1
    /\ args.annotations = <<>>
    /\ args.watermark # <<>> /\ ~args.watermark[1].enabled
    /\ drawn[Len(drawn)].op = "bar_text"

---------------------------------------------------------------------------
(* Properties of the failures *)

\* C16: when either file cannot be decoded find_roi_position ends in the
\* read error of that file (the panorama's when both fail) before any scale
\* is tried, and create_zoom_figure ends with it: no match is observed or
\* returned, no image is loaded, no canvas allocated, nothing drawn, nothing
\* saved, nothing returned
C16_UnreadableFailsFirst ==
    ~BothReadable =>
        /\ pc \in {"create_zoom_figure", "find_roi_position", "raised"}
        /\ si = 0 /\ obs = <<>> /\ best_match = <<>> /\ roi = <<>>
        /\ panorama = <<>> /\ zoom_img = <<>>
        /\ canvas = <<>> /\ drawn = <<>>
        /\ saved = <<>> /\ result = <<>>
        /\ pc = "raised" =>
              /\ stack = <<>>
              /\ error = IF panorama_file = Unreadable THEN "read_panorama"
                         ELSE "read_zoom"
        /\ pc # "raised" => error = ""

C16_Witness ==
    /\ pc = "raised"
    /\ error = "read_zoom"
    /\ panorama_file # Unreadable
    /\ zoom_file = Unreadable
    /\ canvas = <<>> /\ saved = <<>>

---------------------------------------------------------------------------
(* Properties of the scale-bar geometry *)

IsMainBar(o) == o.op = "bar_line" /\ o.y1 = o.y2
IsEnabled(cfg) == cfg.enabled
\* the horizontal bars on the canvas and the configs that draw one, in order
MainBarSeq == SelectSeq(drawn, IsMainBar)
EnabledSeq == SelectSeq(args.scale_bar, IsEnabled)
TargetLeft(cfg) ==
    IF cfg.position = "panorama" THEN drawn[1].x ELSE drawn[2].x
TargetRight(cfg) ==
    IF cfg.position = "panorama" THEN drawn[1].x + drawn[1].w
    ELSE drawn[2].x + drawn[2].w
TargetBottom(cfg) ==
    IF cfg.position = "panorama" THEN drawn[1].y + drawn[1].h
    ELSE drawn[2].y + drawn[2].h

\* C17: every enabled config of the scale_bar argument draws its bar from
\* the anchor (sb_x, sb_y) with sb_y = target_bottom - offset_y for both
\* corners and sb_x = target_left + offset_x for the left corner or
\* target_right - length_pixels - offset_x for the right one, the edges
\* being those of the pasted panorama or zoom image the config targets;
\* each config of a list is anchored against its own target
C17_Anchor ==
    pc = "fig_annotations" =>
        /\ Len(MainBarSeq) = Len(EnabledSeq)
        /\ \A k \in DOMAIN EnabledSeq :
              LET cfg == EnabledSeq[k]
                  bar == MainBarSeq[k]
                  length_pixels == bar.x2 - bar.x1
              IN  /\ bar.y1 = TargetBottom(cfg) - cfg.offset_y
                  /\ cfg.corner = "left" =>
                        bar.x1 = TargetLeft(cfg) + cfg.offset_x
                  /\ cfg.corner = "right" =>
                        bar.x1 = TargetRight(cfg) - length_pixels - cfg.offset_x

C17_Witness ==
    /\ pc = "fig_annotations"
    /\ Len(EnabledSeq) = 2
    /\ EnabledSeq[1].position = "panorama" /\ EnabledSeq[1].corner = "right"
    /\ EnabledSeq[2].position = "zoom" /\ EnabledSeq[2].corner = "left"
    /\ MainBarSeq[1].x2 = drawn[1].x + drawn[1].w - EnabledSeq[1].offset_x
    /\ MainBarSeq[2].x1 = drawn[2].x + EnabledSeq[2].offset_x

\* the strokes and the label of the only config drawn, after the two pastes
OneBar == pc = "fig_annotations" /\ Len(args.scale_bar) = 1
                                 /\ args.scale_bar[1].enabled
BarOps == SubSeq(drawn, 3, Len(drawn))
Strokes == SelectSeq(BarOps, LAMBDA o : o.op = "bar_line")
Vertical(o, atx, top, bottom, width) ==
    /\ o.x1 = atx /\ o.x2 = atx
    /\ o.y1 = top /\ o.y2 = bottom
    /\ o.width = width

\* C18 as stated: the end ticks are 3 * thickness high and the centre tick
\* half of that, each centred on the bar
C18_TicksOfHeight3t ==
    OneBar =>
        LET cfg == args.scale_bar[1]
            bar == Strokes[1]
        IN  /\ cfg.style = "line" => Len(Strokes) = 1
            /\ cfg.style = "ends" =>
                  /\ Len(Strokes) = 3
                  /\ \A k \in {2, 3} :
                        /\ Strokes[k].y2 - Strokes[k].y1 = 3 * cfg.thickness
                        /\ Strokes[k].y1 <= bar.y1 /\ bar.y1 <= Strokes[k].y2
            /\ cfg.style = "ticks" =>
                  /\ Len(Strokes) = 4
                  /\ \A k \in {2, 3} :
                        Strokes[k].y2 - Strokes[k].y1 = 3 * cfg.thickness
                  /\ Strokes[4].y2 - Strokes[4].y1 = (3 * cfg.thickness) \div 2

\* C18: besides the horizontal bar of length_pixels, style line draws no
\* tick; style ends draws two vertical end ticks at x and x + length_pixels,
\* each reaching 3 * thickness above and 3 * thickness below the bar's y (6 *
\* thickness from end to end) with the bar's stroke width; style ticks
\* draws those two and one centre tick at x + length_pixels // 2 reaching
\* (3 * thickness) // 2 above and below the bar's y, of stroke width max(1,
\* thickness // 2)
C18_TicksReach3t ==
    OneBar =>
        LET cfg == args.scale_bar[1]
            t == cfg.thickness
            bar == Strokes[1]
            x == bar.x1
            y == bar.y1
            n == bar.x2 - bar.x1
        IN  /\ bar.y2 = y /\ bar.width = t
            /\ Len(BarOps) = Len(Strokes) + 1
            /\ BarOps[Len(BarOps)].op = "bar_text"
            /\ cfg.style = "line" => Len(Strokes) = 1
            /\ cfg.style = "ends" =>
                  /\ Len(Strokes) = 3
                  /\ Vertical(Strokes[2], x, y - 3 * t, y + 3 * t, t)
                  /\ Vertical(Strokes[3], x + n, y - 3 * t, y + 3 * t, t)
            /\ cfg.style = "ticks" =>
                  /\ Len(Strokes) = 4
                  /\ Vertical(Strokes[2], x, y - 3 * t, y + 3 * t, t)
                  /\ Vertical(Strokes[3], x + n, y - 3 * t, y + 3 * t, t)
                  /\ Vertical(Strokes[4], x + n \div 2, y - (3 * t) \div 2,
                              y + (3 * t) \div 2,
                              IF t \div 2 >= 1 THEN t \div 2 ELSE 1)

C18_Witness ==
    /\ OneBar
    /\ args.scale_bar[1].style = "ticks"
    /\ args.scale_bar[1].thickness = 1
    /\ Len(Strokes) = 4
    /\ Strokes[4].width = 1
    /\ Strokes[2].y2 - Strokes[2].y1 = 6
    /\ Strokes[4].y2 - Strokes[4].y1 = 2
    /\ (Strokes[1].x2 - Strokes[1].x1) % 2 = 1

\* the label of the only config drawn
TheLabel == BarOps[Len(BarOps)].label

\* C19: the label is in millimetres with one decimal, length_um / 1000
\* rounded to the nearest tenth, from 1000 um on, and in micrometres as the
\* integer itself below: 100 gives "100 um", 1500 "1.5 mm", 1000 "1.0 mm",
\* 999 "999 um"
C19_LabelUnit ==
    OneBar =>
        LET um == args.scale_bar[1].length_um
            tenths == 10 * TheLabel.whole + TheLabel.tenth
        IN  /\ BarOps[Len(BarOps)].op = "bar_text"
            /\ um >= 1000 =>
                  /\ TheLabel.unit = "mm"
                  /\ TheLabel.tenth \in 0..9
                  /\ 100 * tenths - 50 <= um /\ um <= 100 * tenths + 50
            /\ um < 1000 =>
                  /\ TheLabel.unit = "um"
                  /\ TheLabel.whole = um
                  /\ TheLabel.tenth = 0
            /\ um = 100 => TheLabel = [unit |-> "um", whole |-> 100, tenth |-> 0]
            /\ um = 1500 => TheLabel = [unit |-> "mm", whole |-> 1, tenth |-> 5]
            /\ um = 1000 => TheLabel = [unit |-> "mm", whole |-> 1, tenth |-> 0]
            /\ um = 999 => TheLabel = [unit |-> "um", whole |-> 999, tenth |-> 0]

C19_Witness ==
    /\ OneBar
    /\ args.scale_bar[1].length_um = 1000
    /\ TheLabel = [unit |-> "mm", whole |-> 1, tenth |-> 0]

---------------------------------------------------------------------------
(* Properties of the annotations *)

\* the first operation of each annotation: every annotation operation but
\* the filled head that follows an arrow's stroke
IsAnnHead(o) ==
    /\ o.op \in AnnKinds
    /\ ~(o.op = "ann_polygon" /\ o.filled)
AnnHeads == SelectSeq(drawn, IsAnnHead)
\* the position draw_annotation was given, read back from what it drew
GivenPos(o, ann) ==
    CASE ann.type = "arrow" -> <<o.x1, o.y1>>
      [] ann.type = "text" -> <<o.x, o.y>>
      [] ann.type = "star" -> <<o.x + ann.size \div 2, o.y + ann.size>>
      [] ann.type = "circle" -> <<o.x1 + ann.size, o.y1 + ann.size>>
      [] ann.type = "triangle" -> <<o.points[1][1], o.points[1][2] + ann.size>>
TargetAnchor(ann) ==
    IF ann.target = "panorama" THEN <<drawn[1].x, drawn[1].y>>
    ELSE <<drawn[2].x, drawn[2].y>>

\* C20: every annotation is drawn at target_anchor + position, the anchor
\* being pano_pos for an annotation on the panorama and zoom_pos for one on
\* the zoom, in list order; draw_annotation draws at the position it is
\* given
C20_AnnotationPosition ==
    (pc # "raised" /\ Stage(pc) >= 10) =>
        /\ Len(AnnHeads) = Len(args.annotations)
        /\ \A k \in DOMAIN args.annotations :
              LET ann == args.annotations[k]
              IN  /\ GivenPos(AnnHeads[k], ann)[1]
                       = TargetAnchor(ann)[1] + ann.position[1]
                  /\ GivenPos(AnnHeads[k], ann)[2]
                       = TargetAnchor(ann)[2] + ann.position[2]

C20_Witness ==
    /\ pc = "fig_watermark"
    /\ Len(args.annotations) = 3
    /\ args.annotations[1].target = "zoom"
    /\ args.annotations[2].target = "panorama"
    /\ AnnHeads[1].x = zoom_pos[1] + 3 - 2
    /\ AnnHeads[2].points[1] = <<pano_pos[1] + 4, pano_pos[2] + 6 - 4>>
    /\ pano_pos # zoom_pos

\* the canvas indexes of the annotation operations, and the operation that
\* begins what an annotation of the given kind draws
AnnIndexes == OpsOf(AnnKinds)
BeginsKind(o, ann) ==
    CASE ann.type = "arrow" -> o.op = "ann_line" /\ o.width = ann.thickness
      [] ann.type = "text" -> o.op = "ann_text" /\ o.text = ann.text
      [] ann.type = "star" -> o.op = "ann_text" /\ o.text = "*"
      [] ann.type = "circle" -> o.op = "ann_ellipse"
      [] ann.type = "triangle" -> o.op = "ann_polygon" /\ ~o.filled
\* how many operations an annotation of the given kind draws
OpsPer(ann) == IF ann.type = "arrow" THEN 2 ELSE 1
RECURSIVE OpsBefore(_)
OpsBefore(k) ==
    IF k <= 1 THEN 0 ELSE OpsBefore(k - 1) + OpsPer(args.annotations[k - 1])

\* C21: the annotations are drawn in list order, one draw_annotation per
\* element from first to last: the operations of the k-th element follow
\* all those of the elements before it on the canvas, whatever their kind
\* or target
C21_ListOrder ==
    (pc # "raised" /\ Stage(pc) >= 10) =>
        LET first == IF AnnIndexes = {} THEN 0
                     ELSE CHOOSE i \in AnnIndexes : \A j \in AnnIndexes : i <= j
        IN  /\ Cardinality(AnnIndexes) = OpsBefore(Len(args.annotations) + 1)
            /\ \A i, j \in AnnIndexes : \A m \in i..j : m \in AnnIndexes
            /\ \A k \in DOMAIN args.annotations :
                  /\ BeginsKind(drawn[first + OpsBefore(k)], args.annotations[k])
                  /\ args.annotations[k].type = "arrow" =>
                        /\ drawn[first + OpsBefore(k) + 1].op = "ann_polygon"
                        /\ drawn[first + OpsBefore(k) + 1].filled

C21_Witness ==
    /\ pc = "done"
    /\ Len(args.annotations) = 3
    /\ args.annotations[1].type = "star"
    /\ args.annotations[3].type = "arrow"
    /\ \E i \in AnnIndexes :
          /\ drawn[i].op = "ann_text"
          /\ drawn[i + 1].op = "ann_polygon" /\ ~drawn[i + 1].filled
          /\ drawn[i + 2].op = "ann_line"
          /\ drawn[i + 3].op = "ann_polygon" /\ drawn[i + 3].filled

---------------------------------------------------------------------------
(* Properties of the watermark *)

WatermarkDrawn ==
    /\ pc = "fig_save"
    /\ args.watermark # <<>> /\ args.watermark[1].enabled
TheWatermark == drawn[Len(drawn)]

\* C22: the origin of the watermark text keeps a margin of 20 px:
\* bottom-right (W - tw - 20, H - th - 20), bottom-left (20, H - th - 20),
\* top-right (W - tw - 20, 20), top-left (20, 20), center ((W - tw) // 2,
\* (H - th) // 2), for the canvas size (W, H) and the measured text box (tw,
\* th), also for a text box wider than the canvas
C22_WatermarkOrigin ==
    WatermarkDrawn =>
        LET W == canvas[1].w
            H == canvas[1].h
            tw == TheWatermark.text_w
            th == TheWatermark.text_h
            at == <<TheWatermark.x, TheWatermark.y>>
            position == args.watermark[1].position
        IN  /\ TheWatermark.op = "watermark"
            /\ position = "bottom-right" => at = <<W - tw - 20, H - th - 20>>
            /\ position = "bottom-left" => at = <<20, H - th - 20>>
            /\ position = "top-right" => at = <<W - tw - 20, 20>>
            /\ position = "top-left" => at = <<20, 20>>
            /\ position = "center" => /\ 2 * at[1] <= W - tw
                                      /\ W - tw <= 2 * at[1] + 1
                                      /\ 2 * at[2] <= H - th
                                      /\ H - th <= 2 * at[2] + 1

C22_Witness ==
    /\ WatermarkDrawn
    /\ args.watermark[1].position = "bottom-right"
    /\ canvas[1].w >= MaxTextW /\ canvas[1].h >= MaxTextH
    /\ TheWatermark.text_w = MaxTextW
    /\ TheWatermark.x = canvas[1].w - MaxTextW - 20
    /\ TheWatermark.x < 0

-----------------------------------------------------------------------------
(* Properties of the HistoryManager *)

\* the operation run last, once one has run
LastOp == IF hlog = <<>> THEN "" ELSE hlog[1].op

\* C24: after any sequence of push, undo, redo and clear on a HistoryManager
\* with max_history >= 1 the history holds at most max_history states and
\* current_index is a valid position: -1 exactly when the history is empty,
\* otherwise within 0..len(history)-1; a push onto a full history whose
\* current state is the last drops the oldest state and leaves current_index
\* on the state pushed, which is the last.
C24_HistoryBounded ==
    /\ Len(history) <= max_history
    /\ (current_index = -1) <=> (history = <<>>)
    /\ history # <<>> => current_index \in 0..(Len(history) - 1)
    /\ (/\ LastOp = "push"
        /\ Len(hlog[1].history) = max_history
        /\ hlog[1].current_index = max_history - 1)
       => /\ history = Tail(hlog[1].history) \o hlog[1].state
          /\ current_index = Len(history) - 1
          /\ Current(history, current_index) = hlog[1].state[1]

\* C24 witness: a push has overflowed a history of two or more states whose
\* oldest state differed from the next one, and the oldest state is gone
C24_Witness ==
    /\ LastOp = "push"
    /\ max_history >= 2
    /\ Len(hlog[1].history) = max_history
    /\ hlog[1].current_index = max_history - 1
    /\ hlog[1].history[1] # hlog[1].history[2]
    /\ Len(history) = max_history
    /\ history[1] = hlog[1].history[2]

\* a redo that directly follows an undo made while can_undo() held
RedoAfterUndo ==
    /\ LastOp = "undo"
    /\ hlog[1].current_index > 0
    /\ hlog' # hlog
    /\ hlog'[1].op = "redo"

\* C25: push discards every state after the current position, so can_redo()
\* is false right after any push; and when can_undo() holds, undo() followed
\* by redo() brings current_index back to its value before the undo, redo()
\* returns the state that was current before the undo, and the stored
\* history is the one before the undo.
C25_PushDiscardsUndoRedoReturns ==
    /\ [](LastOp = "push" => ~can_redo /\ Current(history, current_index)
                                            = hlog[1].state[1])
    /\ [][RedoAfterUndo =>
            /\ current_index' = hlog[1].current_index
            /\ returned' = <<Current(hlog[1].history, hlog[1].current_index)>>
            /\ history' = hlog[1].history]_vars

\* C25 witness: a redo has returned the second of two different states, the
\* position it had been undone from
C25_Witness ==
    /\ LastOp = "redo"
    /\ current_index = hlog[1].current_index + 1
    /\ current_index = 1
    /\ history[1] # history[2]
    /\ returned = <<history[2]>>

\* the number of consecutive undo() calls that succeed from position i
RECURSIVE UndosFrom(_)
UndosFrom(i) == IF i > 0 THEN 1 + UndosFrom(i - 1) ELSE 0

\* C26: in every reachable state of a HistoryManager undo_count() is
\* non-negative and equals the number of consecutive undo() calls that would
\* succeed from that state; it is 0 exactly when can_undo() is false.
C26_UndoCountIsUndoableSteps ==
    /\ undo_count >= 0
    /\ undo_count = UndosFrom(current_index)
    /\ (undo_count = 0) <=> ~can_undo

-----------------------------------------------------------------------------
(* Properties of the PreviewDebouncer *)

\* the job held in _job is the one timer pending in Tk
AtMostOnePending ==
    /\ Cardinality(timers) <= 1
    /\ (job = <<>>) <=> (timers = {})
    /\ \A t \in timers : job = <<t.id>>

\* every callback was run by the timer of the trigger made last before it,
\* no earlier than the delay after that trigger, and no timer ran it twice
CallbacksOfLastTrigger ==
    /\ \A k \in 1..Len(ran) :
          /\ ran[k].id = ran[k].count
          /\ ran[k].at >= ran[k].set_at + DebounceDelay
    /\ \A k, l \in 1..Len(ran) : k < l => ran[k].id < ran[l].id
    /\ Len(ran) <= after_count

\* the callback has run for the timer of the given id
Ran(id) == \E k \in 1..Len(ran) : ran[k].id = id

\* C27: after any interleaving of trigger(), cancel() and timer expiry at
\* most one scheduled job is pending; each trigger() cancels the job pending
\* before it, so of a burst of triggers only the last runs the callback,
\* once, and no earlier than the delay after it; after cancel() the callback
\* does not run until a later trigger(); and a trigger followed by no
\* further trigger or cancel eventually runs the callback.
C27_Debounced ==
    /\ [](AtMostOnePending /\ CallbacksOfLastTrigger)
    /\ [][ran' # ran => dlog = "trigger" /\ job = <<ran'[Len(ran')].id>>]_vars
    /\ \A id \in 1..MaxAfter :
          (job = <<id>>) ~> (Ran(id) \/ dlog = "cancel" \/ after_count > id)

\* C27 witness: the callback has run once, for the second trigger of a
\* burst of two, and nothing is pending
C27_Witness ==
    /\ Len(ran) = 1
    /\ ran[1].id = 2
    /\ after_count = 2
    /\ ran[1].at = ran[1].set_at + DebounceDelay
    /\ job = <<>>
    /\ timers = {}

-----------------------------------------------------------------------------
(* Properties of the GUI *)

Modifying == {"reset_roi_offset", "on_canvas_click",
              "delete_selected_annotation"}

\* C23: after one or more modifying operations (reset_roi_offset, adding an
\* annotation, deleting an annotation), each of which saves the state before
\* it changes the settings, one undo() leaves the settings exactly as they
\* were immediately before the most recent modification.
C23_UndoRestoresLastModification ==
    [][(event.handler \in Modifying /\ event'.handler = "undo")
         => settings' = unmodified[1]]_vars

\* the operations the last annotation of the settings draws at the point p
LastAnnotationAt(p) ==
    DrawAnnotation(settings.annotations[Len(settings.annotations)], p)

\* the last operations drawn on the preview, as many as ops
LastDrawn(ops) ==
    IF Len(drawn) < Len(ops) THEN <<>>
    ELSE SubSeq(drawn, Len(drawn) - Len(ops) + 1, Len(drawn))

\* the preview has been rendered again since the handler run last
Rerendered == job = <<>> /\ dlog = "_execute"

\* C29: with the preview at 100%, a click at the image point (px, py) in
\* add-annotation mode for the target T stores the position
\* (px - T_pos.x, py - T_pos.y), T_pos taken from the metadata of the last
\* result, and the next rendering of the unchanged images and layout draws
\* that annotation at exactly (px, py).
C29_ClickRoundTrip ==
    (event.handler = "on_canvas_click" /\ preview_scale = PctScale)
    => LET ann == settings.annotations[Len(settings.annotations)]
           T_pos == IF ann.target = "panorama" THEN result[1].pano_pos
                    ELSE result[1].zoom_pos
       IN  /\ ann.position = <<event.point[1] - T_pos[1],
                               event.point[2] - T_pos[2]>>
           /\ Rerendered => /\ AbsPos(ann) = event.point
                            /\ LastDrawn(LastAnnotationAt(event.point))
                                 = LastAnnotationAt(event.point)

\* C29 witness: a click at (31, 12) on the preview at 100% added an
\* annotation to the zoom image, whose anchor is not the origin, and the
\* preview rendered since shows it there
C29_Witness ==
    /\ event = Event("on_canvas_click", <<31, 12>>)
    /\ preview_scale = PctScale
    /\ Rerendered
    /\ settings.annotations[Len(settings.annotations)].target = "zoom"
    /\ zoom_pos # pano_pos
    /\ LastDrawn(LastAnnotationAt(<<31, 12>>)) = LastAnnotationAt(<<31, 12>>)
    /\ LastAnnotationAt(<<31, 12>>) # <<>>

-----------------------------------------------------------------------------
(* Properties of the batch dialog *)

IsPrefix(a, b) == Len(a) <= Len(b) /\ SubSeq(b, 1, Len(a)) = a

\* the worker thread has ended, by returning or by an exception
WorkerEnded == worker \in {"ended", "raised"}

\* C28: the worker processes the pairs in list order and starts no pair once
\* processing is off, so the pairs started on are always a prefix of
\* file_pairs (of the list as it stood when the worker began, or as it
\* stands); a failed pair is counted and the later pairs are still
\* processed; when the worker ends, processing is off, the start button is
\* enabled, and success + failed is the number of pairs started on.
C28_PrefixInOrderAndCounted ==
    /\ [](/\ IsPrefix(started, batch_list) \/ IsPrefix(started, file_pairs)
          /\ WorkerEnded => /\ ~processing
                            /\ start_btn = "normal"
                            /\ success + failed = Len(started))
    /\ [][started' # started /\ started' # <<>> => processing]_vars

-----------------------------------------------------------------------------
(* Properties of the march of draw_dashed_line *)

\* an iteration that skips a gap and so completes a cycle of a dash and a gap
CycleEnds == pc = "march" /\ ~drawing /\ drawing'

\* C30: draw_dashed_line terminates for every start point, end point,
\* dash_length and gap_length create_zoom_figure accepts: a zero-length line
\* returns at once and draws nothing, and otherwise the traversed distance
\* current_pos strictly increases over each cycle of a dash and a gap, so
\* the march reaches the length of the line after finitely many iterations.
C30_MarchAdvances ==
    /\ [](pc = "returned" /\ LengthSq(dl[1]) = 0 => drawn = <<>>)
    /\ [][CycleEnds => current_pos' > current_pos - dl[1].dash_length]_vars
=======================================================================
